---- MODULE Spec2Model ----
(***************************************************************************)
(* decom - device communication library.                                   *)
(*                                                                         *)
(* State-machine model of the two reference protocols of the layer stack:  *)
(*   prot::iso15765  ISO 15765-2 (CAN-TP) segmentation and flow control    *)
(*   prot::slip      SLIP (RFC 1055) byte stuffing                         *)
(* A layer is called by its upper layer (open, close, send), by its lower  *)
(* layer (receive, indication) and by its timers.  Every handler is one    *)
(* action; the only handler that blocks, iso15765::send_CF waiting for the *)
(* tx_done latch, is split at the wait.                                    *)
(***************************************************************************)
EXTENDS Integers, Sequences, FiniteSets, TLC

VARIABLES
  tp,        \* tp[i]: the members of iso15765 instance i
  wire,      \* wire[i]: frames the lower layer of instance i accepted, oldest first
  ack,       \* ack[i]: accepted frames the lower layer has not acknowledged yet
  up,        \* up[i]: messages instance i delivered to its upper layer and not yet read
  gh,        \* gh[i]: observer of the running transmission of instance i
  last,      \* the handler that ran last, its inputs and what it passed up and down
  inputs,    \* calls the application and the peer have made so far
  stack,     \* the stack that runs: "iso15765" (SFtest, CFtest), "loopback"
             \* (two iso15765 instances on loopback communicators) or "slip"
  sl,        \* the members of the slip instance
  slwire,    \* the frame the lower layer of slip accepted last, until it is received
  slgh,      \* observer of slip: the packet of the last send and how it was sent,
             \* the packets of a stream that are due and what the decoder held
             \* when the stream began
  com,       \* the communicator at the bottom of the stack: which one it is, its
             \* members, whether the application calls it directly, and what
             \* the protocol on it called when the application called last,
             \* and what ran before that call
  mem,       \* the message pool and the messages that live on it
  ntp        \* the sntp device: its members, the position of the three threads
             \* that run its code, and what the server and the caller saw

isoVars  == <<tp, wire, ack, up, gh>>
slipVars == <<sl, slwire, slgh>>
vars     == <<tp, wire, ack, up, gh, inputs, stack, last, sl, slwire, slgh, com,
              mem, ntp>>

\* the two instances are connected by loopback communicators
looped == stack = "loopback"

(***************************************************************************)
(* Bounds of the model.                                                    *)
(***************************************************************************)
MaxLen     == 8    \* application payloads of every length 0..MaxLen are sent
MaxInputs  == 3    \* calls of the application and of the peer in one run
MaxAck     == 1    \* frames a communicator accepts before it acknowledges one
MidLen     == 22   \* a payload of three Consecutive Frames
LongLen    == 118  \* a payload of more than 15 Consecutive Frames
MaxBuf     == 2    \* bytes slip has received before the line carries frames only
MaxStream  == 3    \* packets of one stream of frames
PoolPages  == 2    \* pages of the message pool
PageSize   == 2    \* bytes of a page
MaxMsgs    == 2    \* messages that live at a time
MaxCalls   == 1    \* calls of sntp::get_time
MaxResponses == 2  \* responses of the NTP server
MaxOps     == 6    \* calls of message operations in one run

(***************************************************************************)
(* Protocol definitions of prot_iso15765.h.                                *)
(***************************************************************************)
NPCI_SINGLE_FRAME      == 0
NPCI_FIRST_FRAME       == 16
NPCI_CONSECUTIVE_FRAME == 32
NPCI_FLOW_CONTROL      == 48
SFrame_DATALENGTH      == 7
FF_DATALENGTH          == 6
CF_DATALENGTH          == 7
FC_DATALENGTH          == 3
SFrame_DATALENGTH_EXT  == 6
FF_DATALENGTH_EXT      == 5
CF_DATALENGTH_EXT      == 6
FRAME_LENGTH           == 8
FC_CTS                 == 0
FC_WAIT                == 1
FC_OVERFLOW            == 2
CF_MAX_FRAME_SIZE      == 4095
CF_MAX_BUFFER_SIZE     == CF_MAX_FRAME_SIZE

Inst == {1, 2}
Peer(i) == 3 - i

(***************************************************************************)
(* decom::msg as far as the protocols use it: a byte sequence.             *)
(***************************************************************************)
Min(a, b) == IF a < b THEN a ELSE b

Zeros(n) == [k \in 1..n |-> 0]

\* msg::resize(n): truncate, or pad with zero bytes
Resize(m, n) == IF Len(m) >= n THEN SubSeq(m, 1, n) ELSE m \o Zeros(n - Len(m))

\* the bytes [from, to) of m, 0-based as the iterators of the source count
Range(m, from, to) == SubSeq(m, from + 1, to)

\* the test pattern of looptest: byte k of the message is (base + k * step) mod 256
Pattern(n, base, step) == [k \in 1..n |-> (base + (k - 1) * step) % 256]

LoNibble(b) == b % 16
HiNibble(b) == (b \div 16) * 16

(***************************************************************************)
(* iso15765: construction.                                                 *)
(***************************************************************************)
\* the constructor, followed by extended_addressing() and set_zero_padding()
iso15765(STmin, BS, MAX_DL, ext, src, tgt, pad) ==
  [ CF_frame |-> <<>>, CF_SN |-> 0, CF_DL |-> 0, CF_size |-> 0, CF_BScnt |-> 0,
    FC_STmin |-> 0, FC_BS |-> 0, FC_FS |-> 0,
    CF_STmin |-> STmin, CF_BS |-> BS, CF_MAX_DL |-> MAX_DL,
    use_ext_adr |-> ext, ext_source_adr |-> src, ext_target_adr |-> tgt,
    use_zero_padding |-> pad,
    \* the device on top has set the upper link
    upper |-> TRUE,
    timer_TX_CF |-> FALSE, timer_TX_FC |-> FALSE, timer_RX_CF |-> FALSE,
    tx_ev |-> FALSE,
    \* send_CF is blocked in tx_ev_.wait_for() holding the frame cf it has built
    cf_wait |-> FALSE, cf |-> <<>>,
    \* send_CF has read CF_frame_ from an iterator behind its end: what the
    \* instance does from then on is undefined
    undefined |-> FALSE ]

\* what a handler did besides changing the members: the frames it offered to the
\* lower layer, the messages and indications it passed up, its return value and
\* the caller's message as the call left it
Out(s, offered, ups, inds, ret, data) ==
  [ s |-> s, offered |-> offered, ups |-> ups, inds |-> inds, ret |-> ret,
    data |-> data ]

(***************************************************************************)
(* iso15765: frame building.                                               *)
(***************************************************************************)
\* fault: the Single Frame limit of normal addressing in both addressing modes
SFrameMax_NoExt(s) == SFrame_DATALENGTH

SFrameMax(s) == IF s.use_ext_adr THEN SFrame_DATALENGTH_EXT ELSE SFrame_DATALENGTH
FFMax(s)     == IF s.use_ext_adr THEN FF_DATALENGTH_EXT ELSE FF_DATALENGTH
CFMax(s)     == IF s.use_ext_adr THEN CF_DATALENGTH_EXT ELSE CF_DATALENGTH

\* if (use_ext_adr_) frame.push_front(ext_target_adr_)
WithAddress(s, f) == IF s.use_ext_adr THEN <<s.ext_target_adr>> \o f ELSE f

\* if (use_zero_padding_) frame.insert(end, size < 8 ? 8 - size : 0, 0)
WithPadding(s, f) ==
  IF s.use_zero_padding /\ Len(f) < FRAME_LENGTH
  THEN f \o Zeros(FRAME_LENGTH - Len(f)) ELSE f

\* the Single Frame send() makes of data, in place
SingleFrame(s, data) ==
  WithPadding(s, WithAddress(s, <<NPCI_SINGLE_FRAME + LoNibble(Len(data))>> \o data))

\* the First Frame send() builds once CF_DL_ and CF_size_ are set
FirstFrame(s, data) ==
  WithAddress(s, <<NPCI_FIRST_FRAME + LoNibble(s.CF_size \div 256), s.CF_size % 256>>
                 \o Range(data, 0, s.CF_DL))

\* fault: the sequence number is not reduced to its low nibble
ConsecutiveFrame_NoMask(s) ==
  WithPadding(s, WithAddress(s,
    <<NPCI_CONSECUTIVE_FRAME + s.CF_SN>>
    \o Range(s.CF_frame, s.CF_DL,
             IF s.CF_DL + CFMax(s) < Len(s.CF_frame) THEN s.CF_DL + CFMax(s)
                                                   ELSE Len(s.CF_frame))))

\* the Consecutive Frame send_CF() builds from CF_SN_, CF_DL_ and CF_frame_
ConsecutiveFrame(s) ==
  WithPadding(s, WithAddress(s,
    <<NPCI_CONSECUTIVE_FRAME + LoNibble(s.CF_SN)>>
    \o Range(s.CF_frame, s.CF_DL,
             IF s.CF_DL + CFMax(s) < Len(s.CF_frame) THEN s.CF_DL + CFMax(s)
                                                   ELSE Len(s.CF_frame))))

\* the Flow Control frame send_FC() builds
FlowControl(s, FS) ==
  WithPadding(s, WithAddress(s, <<NPCI_FLOW_CONTROL + LoNibble(FS), s.CF_BS, s.CF_STmin>>))

(***************************************************************************)
(* iso15765::send.  lower is what protocol::send returns for the frame.    *)
(***************************************************************************)
\* fault: the N_Bs timer is not started after the First Frame
send_FF_NoTimer(s, data, lower) ==
  LET s1 == [s EXCEPT !.CF_frame = data, !.CF_SN = 1, !.CF_DL = FFMax(s),
                      !.CF_size = Len(data) % 65536, !.CF_BScnt = 0]
      ff == FirstFrame(s1, data)
  IN  IF lower
      THEN Out(s1, <<ff>>, <<>>, <<>>, TRUE, data)
      ELSE Out([s1 EXCEPT !.CF_DL = 0, !.CF_frame = <<>>], <<ff>>, <<>>, <<>>, FALSE, data)

send_FF(s, data, lower) ==
  LET s1 == [s EXCEPT !.CF_frame = data, !.CF_SN = 1, !.CF_DL = FFMax(s),
                      !.CF_size = Len(data) % 65536, !.CF_BScnt = 0]
      ff == FirstFrame(s1, data)
  IN  IF lower
      THEN Out([s1 EXCEPT !.timer_TX_FC = TRUE], <<ff>>, <<>>, <<>>, TRUE, data)
      ELSE Out([s1 EXCEPT !.CF_DL = 0, !.CF_frame = <<>>], <<ff>>, <<>>, <<>>, FALSE, data)

\* fault: a running transfer is not checked for
send_NoBusyCheck(s, data, lower) ==
  IF Len(data) > CF_MAX_FRAME_SIZE THEN Out(s, <<>>, <<>>, <<>>, FALSE, data)
  ELSE IF Len(data) <= SFrameMax(s)
       THEN Out(s, <<SingleFrame(s, data)>>, <<>>, <<>>, lower, SingleFrame(s, data))
       ELSE send_FF(s, data, lower)

send(s, data, lower) ==
  IF Len(data) > CF_MAX_FRAME_SIZE THEN Out(s, <<>>, <<>>, <<>>, FALSE, data)
  ELSE IF s.CF_DL # 0 THEN Out(s, <<>>, <<>>, <<>>, FALSE, data)
  ELSE IF Len(data) <= SFrameMax(s)
       THEN Out(s, <<SingleFrame(s, data)>>, <<>>, <<>>, lower, SingleFrame(s, data))
       ELSE send_FF(s, data, lower)

(***************************************************************************)
(* iso15765::receive.  data is the frame after the address byte has been   *)
(* stripped; lower is what protocol::send returns for a Flow Control frame *)
(* the handler sends.                                                      *)
(***************************************************************************)
\* util::make_large<uint8, uint16>(lo, hi)
make_large(lo, hi) == hi * 256 + lo

\* case NPCI_SINGLE_FRAME
receive_SF(s, data) ==
  LET s1    == [s EXCEPT !.CF_DL = 0]
      SFrame_DL == LoNibble(data[1])
  IN  IF SFrame_DL > SFrameMax(s) \/ Len(data) <= SFrame_DL
      THEN Out(s1, <<>>, <<>>, <<"rx_error">>, TRUE, data)
      ELSE Out(s1, <<>>, <<Resize(Tail(data), SFrame_DL)>>, <<>>, TRUE, data)

\* case NPCI_FIRST_FRAME; the result of send_FC(FC_CTS) is dropped
receive_FF(s, data) ==
  LET DL == make_large(data[2], LoNibble(data[1]))
      s0 == [s EXCEPT !.CF_DL = 0, !.CF_frame = <<>>]
  IN  IF DL < FFMax(s) + 2
      THEN Out(s0, <<>>, <<>>, <<"rx_error">>, TRUE, data)
      ELSE IF DL > s.CF_MAX_DL \/ DL > CF_MAX_BUFFER_SIZE
      THEN Out(s0, <<>>, <<>>, <<"rx_error">>, TRUE, data)
      ELSE Out([s EXCEPT !.CF_DL = DL,
                         !.CF_frame = Resize(Tail(Tail(data)), FFMax(s)),
                         !.CF_SN = 1, !.CF_BScnt = 0, !.timer_RX_CF = TRUE],
               <<FlowControl(s, FC_CTS)>>, <<>>, <<>>, TRUE, data)

\* CF_SN_ = ++CF_SN_ & 0x0F
NextExpectedSN(sn) == LoNibble((sn + 1) % 256)

\* fault: the Flow Control frame follows the Consecutive Frame after the block
receive_CF_block_Late(s) ==
  IF s.CF_BS # 0
  THEN IF (s.CF_BScnt + 1) % 256 > s.CF_BS
       THEN Out([s EXCEPT !.CF_BScnt = 0, !.timer_RX_CF = TRUE],
                <<FlowControl(s, FC_CTS)>>, <<>>, <<>>, TRUE, <<>>)
       ELSE Out([s EXCEPT !.CF_BScnt = (s.CF_BScnt + 1) % 256, !.timer_RX_CF = TRUE],
                <<>>, <<>>, <<>>, TRUE, <<>>)
  ELSE Out([s EXCEPT !.timer_RX_CF = TRUE], <<>>, <<>>, <<>>, TRUE, <<>>)

\* the block counter of the receiver: ++CF_BScnt_ is evaluated only if CF_BS_ != 0
receive_CF_block(s) ==
  IF s.CF_BS # 0
  THEN IF (s.CF_BScnt + 1) % 256 >= s.CF_BS
       THEN Out([s EXCEPT !.CF_BScnt = 0, !.timer_RX_CF = TRUE],
                <<FlowControl(s, FC_CTS)>>, <<>>, <<>>, TRUE, <<>>)
       ELSE Out([s EXCEPT !.CF_BScnt = (s.CF_BScnt + 1) % 256, !.timer_RX_CF = TRUE],
                <<>>, <<>>, <<>>, TRUE, <<>>)
  ELSE Out([s EXCEPT !.timer_RX_CF = TRUE], <<>>, <<>>, <<>>, TRUE, <<>>)

\* the buffer after the payload of a Consecutive Frame: appended if it fits
receive_CF_append(frame, payload) ==
  IF Len(frame) + Len(payload) <= CF_MAX_BUFFER_SIZE THEN frame \o payload ELSE frame

\* fault: a wrong sequence number raises rx_error and keeps the reception
receive_CF_KeepOnWrongSN(s, data) ==
  LET s0 == [s EXCEPT !.timer_RX_CF = FALSE]
      SN == LoNibble(data[1])
  IN  IF s0.CF_DL = 0
      THEN Out(s0, <<>>, <<>>, <<"rx_error">>, TRUE, data)
      ELSE IF SN # s0.CF_SN
      THEN Out(s0, <<>>, <<>>, <<"rx_error">>, TRUE, data)
      ELSE
        LET payload == Tail(data)
            fits    == Len(s0.CF_frame) + Len(payload) <= CF_MAX_BUFFER_SIZE
            over    == IF fits THEN <<>> ELSE <<"rx_overrun">>
            s1      == [s0 EXCEPT !.CF_SN = NextExpectedSN(s0.CF_SN),
                                  !.CF_frame = receive_CF_append(s0.CF_frame, payload)]
        IN  IF Len(s1.CF_frame) >= s1.CF_DL
            THEN Out([s1 EXCEPT !.CF_DL = 0, !.CF_frame = <<>>],
                     <<>>, <<Resize(s1.CF_frame, s1.CF_DL)>>, over, TRUE, data)
            ELSE LET b == receive_CF_block(s1)
                 IN  Out(b.s, b.offered, <<>>, over, TRUE, data)

\* case NPCI_CONSECUTIVE_FRAME
receive_CF(s, data) ==
  LET s0 == [s EXCEPT !.timer_RX_CF = FALSE]
      SN == LoNibble(data[1])
  IN  IF s0.CF_DL = 0
      THEN Out(s0, <<>>, <<>>, <<"rx_error">>, TRUE, data)
      ELSE IF SN # s0.CF_SN
      THEN Out([s0 EXCEPT !.CF_DL = 0, !.CF_frame = <<>>],
               <<>>, <<>>, <<"rx_error">>, TRUE, data)
      ELSE
        LET payload == Tail(data)
            fits    == Len(s0.CF_frame) + Len(payload) <= CF_MAX_BUFFER_SIZE
            over    == IF fits THEN <<>> ELSE <<"rx_overrun">>
            s1      == [s0 EXCEPT !.CF_SN = NextExpectedSN(s0.CF_SN),
                                  !.CF_frame = receive_CF_append(s0.CF_frame, payload)]
        IN  IF Len(s1.CF_frame) >= s1.CF_DL
            THEN Out([s1 EXCEPT !.CF_DL = 0, !.CF_frame = <<>>],
                     <<>>, <<Resize(s1.CF_frame, s1.CF_DL)>>, over, TRUE, data)
            ELSE LET b == receive_CF_block(s1)
                 IN  Out(b.s, b.offered, <<>>, over, TRUE, data)

\* case NPCI_FLOW_CONTROL
receive_FC(s, data) ==
  LET s0 == [s EXCEPT !.timer_TX_FC = FALSE]
  IN  IF Len(data) < FC_DATALENGTH
      THEN Out(s0, <<>>, <<>>, <<"rx_error">>, TRUE, data)
      ELSE IF LoNibble(data[1]) > 1
      THEN Out(s0, <<>>, <<>>, <<"rx_error">>, TRUE, data)
      ELSE LET FS == data[1] % 2
           IN  Out([s0 EXCEPT !.FC_FS = FS, !.FC_BS = data[2], !.FC_STmin = data[3],
                              !.CF_BScnt = 0,
                              !.timer_TX_CF = IF FS = 0 THEN TRUE ELSE @],
                   <<>>, <<>>, <<>>, TRUE, data)

\* switch (data[0] & 0xF0)
receive_NPCI(s, data) ==
  CASE HiNibble(data[1]) = NPCI_SINGLE_FRAME      -> receive_SF(s, data)
    [] HiNibble(data[1]) = NPCI_FIRST_FRAME       -> receive_FF(s, data)
    [] HiNibble(data[1]) = NPCI_CONSECUTIVE_FRAME -> receive_CF(s, data)
    [] HiNibble(data[1]) = NPCI_FLOW_CONTROL      -> receive_FC(s, data)
    [] OTHER -> Out(s, <<>>, <<>>, <<"rx_error">>, TRUE, data)

\* fault: the source address of a frame is stripped and not compared
receive_AnySource(s, data) ==
  IF s.use_ext_adr THEN receive_NPCI(s, Tail(data)) ELSE receive_NPCI(s, data)

receive(s, data) ==
  IF s.use_ext_adr
  THEN IF data[1] # s.ext_source_adr
       THEN Out(s, <<>>, <<>>, <<>>, TRUE, data)
       ELSE receive_NPCI(s, Tail(data))
  ELSE receive_NPCI(s, data)

(***************************************************************************)
(* iso15765::indication, the timer callbacks, open and close.              *)
(***************************************************************************)
indication(s, code) ==
  Out(IF code = "tx_done" THEN [s EXCEPT !.tx_ev = TRUE] ELSE s,
      <<>>, <<>>, <<code>>, TRUE, <<>>)

\* timer_func_TX_CF: send_CF() up to its wait for tx_done
send_CF_build(s) ==
  IF s.CF_DL > Len(s.CF_frame)
  THEN [s EXCEPT !.timer_TX_CF = FALSE, !.undefined = TRUE]
  ELSE [s EXCEPT !.timer_TX_CF = FALSE, !.cf_wait = TRUE, !.cf = ConsecutiveFrame(s)]

\* fault: after the timeout the frame is tried again, the transfer goes on
send_CF_timeout_Retry(s) ==
  Out([s EXCEPT !.cf_wait = FALSE, !.cf = <<>>, !.timer_TX_CF = TRUE],
      <<>>, <<>>, <<"tx_timeout">>, FALSE, <<>>)

\* send_CF(): tx_ev_.wait_for(N_As) timed out
send_CF_timeout(s) ==
  Out([s EXCEPT !.cf_wait = FALSE, !.cf = <<>>, !.CF_DL = 0, !.CF_frame = <<>>],
      <<>>, <<>>, <<"tx_timeout">>, FALSE, <<>>)

\* the sequence number after a Consecutive Frame was sent: CF_SN_++ on a uint8
NextSN(sn) == (sn + 1) % 256

\* the block counter of the sender: FC_BS_ && (CF_BScnt_++ >= FC_BS_)
send_CF_block(s) ==
  IF s.FC_BS # 0
  THEN IF s.CF_BScnt >= s.FC_BS
       THEN [s EXCEPT !.CF_BScnt = (s.CF_BScnt + 1) % 256, !.timer_TX_FC = TRUE]
       ELSE [s EXCEPT !.CF_BScnt = (s.CF_BScnt + 1) % 256, !.timer_TX_CF = TRUE]
  ELSE [s EXCEPT !.timer_TX_CF = TRUE]

\* send_CF() after the wait: tx_ev_ was set
send_CF(s, lower) ==
  LET s0 == [s EXCEPT !.cf_wait = FALSE, !.cf = <<>>, !.tx_ev = FALSE]
  IN  IF lower
      THEN LET s1 == [s0 EXCEPT !.CF_SN = NextSN(s0.CF_SN),
                                !.CF_DL = (s0.CF_DL + CFMax(s0)) % 65536]
           IN  IF s1.CF_DL >= s1.CF_size
               THEN Out([s1 EXCEPT !.CF_DL = 0, !.CF_frame = <<>>],
                        <<s.cf>>, <<>>, <<>>, TRUE, <<>>)
               ELSE Out(send_CF_block(s1), <<s.cf>>, <<>>, <<>>, TRUE, <<>>)
      ELSE Out([s0 EXCEPT !.timer_TX_CF = TRUE], <<s.cf>>, <<>>, <<>>, FALSE, <<>>)

\* fault: the abort clears the buffer and leaves CF_DL_
send_CF_abort_KeepDL(s) ==
  Out([s EXCEPT !.CF_frame = <<>>], <<>>, <<>>, <<"rx_timeout">>, TRUE, <<>>)

\* timer_func_TX_FC and timer_func_RX_CF
send_CF_abort(s) ==
  Out([s EXCEPT !.CF_DL = 0, !.CF_frame = <<>>], <<>>, <<>>, <<"rx_timeout">>, TRUE, <<>>)

\* fault: the lower layer is opened before the upper link is looked at
open_Ungated(s, lower) ==
  Out([s EXCEPT !.CF_DL = IF s.upper THEN 0 ELSE @], <<>>, <<>>, <<>>,
      s.upper /\ lower, <<>>) @@ [calls |-> <<"open">>]

\* iso15765::open; lower is what protocol::open returns, calls what it called
\* of the lower layer
open(s, lower) ==
  IF ~s.upper THEN Out(s, <<>>, <<>>, <<>>, FALSE, <<>>) @@ [calls |-> <<>>]
  ELSE Out([s EXCEPT !.CF_DL = 0], <<>>, <<>>, <<>>, lower, <<>>)
         @@ [calls |-> <<"open">>]

close(s) ==
  Out([s EXCEPT !.timer_TX_CF = FALSE, !.timer_TX_FC = FALSE, !.timer_RX_CF = FALSE],
      <<>>, <<>>, <<>>, TRUE, <<>>) @@ [calls |-> <<"close">>]

(***************************************************************************)
(* Protocol definitions of prot_slip.h.                                    *)
(***************************************************************************)
END     == 192
ESC     == 219
ESC_END == 220
ESC_ESC == 221

RCV_IDLE == 0
RCV_DATA == 1
RCV_ESC  == 2

\* the constructor
\* the constructor; the device on top has set the upper link
slip == [rx_state |-> RCV_IDLE, is_open |-> FALSE, rx_msg |-> <<>>, tx_msg |-> <<>>,
         upper |-> TRUE]

\* slip::open; lower is what protocol::open returns, calls what it called of
\* the lower layer
slip_open(s, lower) ==
  IF ~s.upper THEN Out(s, <<>>, <<>>, <<>>, FALSE, <<>>) @@ [calls |-> <<>>]
  ELSE Out([s EXCEPT !.is_open = lower, !.rx_state = RCV_IDLE], <<>>, <<>>, <<>>,
           lower, <<>>) @@ [calls |-> <<"open">>]

slip_close(s) ==
  Out([s EXCEPT !.is_open = FALSE, !.rx_msg = <<>>, !.tx_msg = <<>>,
                !.rx_state = RCV_IDLE], <<>>, <<>>, <<>>, TRUE, <<>>)
    @@ [calls |-> <<"close">>]

\* fault: ESC is stuffed as END is
send_byte_SameEscape(it) ==
  CASE it = END -> <<ESC, ESC_END>>
    [] it = ESC -> <<ESC, ESC_END>>
    [] OTHER    -> <<it>>

\* the body of the loop of slip::send: what is pushed to tx_msg_ for one byte
send_byte(it) ==
  CASE it = END -> <<ESC, ESC_END>>
    [] it = ESC -> <<ESC, ESC_ESC>>
    [] OTHER    -> <<it>>

\* the loop of slip::send over packet
RECURSIVE send_loop(_, _)
send_loop(tx, packet) ==
  IF packet = <<>> THEN tx
  ELSE send_loop(tx \o send_byte(Head(packet)), Tail(packet))

\* fault: the frame stays in the transmit buffer when the lower layer rejects it
slip_send_KeepOnReject(s, packet, more, lower) ==
  IF ~s.is_open THEN Out(s, <<>>, <<>>, <<>>, FALSE, packet)
  ELSE LET tx == send_loop(IF s.tx_msg = <<>> THEN <<END>> ELSE s.tx_msg, packet)
       IN  IF ~more
           THEN Out([s EXCEPT !.tx_msg = IF lower THEN <<>> ELSE tx], <<tx \o <<END>>>>,
                    <<>>, <<>>, lower, packet)
           ELSE Out([s EXCEPT !.tx_msg = tx], <<>>, <<>>, <<"tx_done">>, TRUE, packet)

\* slip::send; lower is what protocol::send returns for the frame
slip_send(s, packet, more, lower) ==
  IF ~s.is_open THEN Out(s, <<>>, <<>>, <<>>, FALSE, packet)
  ELSE LET tx == send_loop(IF s.tx_msg = <<>> THEN <<END>> ELSE s.tx_msg, packet)
       IN  IF ~more
           THEN Out([s EXCEPT !.tx_msg = <<>>], <<tx \o <<END>>>>, <<>>, <<>>, lower, packet)
           ELSE Out([s EXCEPT !.tx_msg = tx], <<>>, <<>>, <<"tx_done">>, TRUE, packet)

\* fault: ESC ESC_ESC is received as the byte ESC_ESC
receive_byte_NoUnstuff(o, it) ==
  LET s == o.s
  IN  CASE s.rx_state = RCV_IDLE ->
             IF it = END THEN [o EXCEPT !.s.rx_state = RCV_DATA] ELSE o
        [] s.rx_state = RCV_DATA ->
             IF it = ESC THEN [o EXCEPT !.s.rx_state = RCV_ESC]
             ELSE IF it = END
                  THEN IF Len(s.rx_msg) # 0
                       THEN [o EXCEPT !.ups = @ \o <<s.rx_msg>>, !.s.rx_msg = <<>>,
                                      !.s.rx_state = RCV_IDLE]
                       ELSE [o EXCEPT !.s.rx_state = RCV_IDLE]
                  ELSE [o EXCEPT !.s.rx_msg = @ \o <<it>>]
        [] s.rx_state = RCV_ESC ->
             IF it = ESC_END
             THEN [o EXCEPT !.s.rx_msg = @ \o <<END>>, !.s.rx_state = RCV_DATA]
             ELSE IF it = ESC_ESC
                  THEN [o EXCEPT !.s.rx_msg = @ \o <<ESC_ESC>>, !.s.rx_state = RCV_DATA]
                  ELSE [o EXCEPT !.s.rx_msg = <<>>, !.s.rx_state = RCV_IDLE]
        [] OTHER -> [o EXCEPT !.s.rx_msg = <<>>, !.s.rx_state = RCV_IDLE]

\* fault: an END right behind the END that began the frame delivers the
\* empty packet
receive_byte_DeliverEmpty(o, it) ==
  LET s == o.s
  IN  CASE s.rx_state = RCV_IDLE ->
             IF it = END THEN [o EXCEPT !.s.rx_state = RCV_DATA] ELSE o
        [] s.rx_state = RCV_DATA ->
             IF it = ESC THEN [o EXCEPT !.s.rx_state = RCV_ESC]
             ELSE IF it = END
                  THEN [o EXCEPT !.ups = @ \o <<s.rx_msg>>, !.s.rx_msg = <<>>,
                                 !.s.rx_state = RCV_IDLE]
                  ELSE [o EXCEPT !.s.rx_msg = @ \o <<it>>]
        [] s.rx_state = RCV_ESC ->
             IF it = ESC_END
             THEN [o EXCEPT !.s.rx_msg = @ \o <<END>>, !.s.rx_state = RCV_DATA]
             ELSE IF it = ESC_ESC
                  THEN [o EXCEPT !.s.rx_msg = @ \o <<ESC>>, !.s.rx_state = RCV_DATA]
                  ELSE [o EXCEPT !.s.rx_msg = <<>>, !.s.rx_state = RCV_IDLE]
        [] OTHER -> [o EXCEPT !.s.rx_msg = <<>>, !.s.rx_state = RCV_IDLE]

\* the body of the loop of slip::receive: one byte in state o.s, o.ups being
\* what the call has passed up so far
receive_byte(o, it) ==
  LET s == o.s
  IN  CASE s.rx_state = RCV_IDLE ->
             IF it = END THEN [o EXCEPT !.s.rx_state = RCV_DATA] ELSE o
        [] s.rx_state = RCV_DATA ->
             IF it = ESC THEN [o EXCEPT !.s.rx_state = RCV_ESC]
             ELSE IF it = END
                  THEN IF Len(s.rx_msg) # 0
                       THEN [o EXCEPT !.ups = @ \o <<s.rx_msg>>, !.s.rx_msg = <<>>,
                                      !.s.rx_state = RCV_IDLE]
                       ELSE [o EXCEPT !.s.rx_state = RCV_IDLE]
                  ELSE [o EXCEPT !.s.rx_msg = @ \o <<it>>]
        [] s.rx_state = RCV_ESC ->
             IF it = ESC_END
             THEN [o EXCEPT !.s.rx_msg = @ \o <<END>>, !.s.rx_state = RCV_DATA]
             ELSE IF it = ESC_ESC
                  THEN [o EXCEPT !.s.rx_msg = @ \o <<ESC>>, !.s.rx_state = RCV_DATA]
                  ELSE [o EXCEPT !.s.rx_msg = <<>>, !.s.rx_state = RCV_IDLE]
        [] OTHER -> [o EXCEPT !.s.rx_msg = <<>>, !.s.rx_state = RCV_IDLE]

\* the loop of slip::receive over data
RECURSIVE receive_loop(_, _)
receive_loop(o, data) ==
  IF data = <<>> THEN o ELSE receive_loop(receive_byte(o, Head(data)), Tail(data))

\* fault: every call begins in RCV_IDLE
slip_receive_PerCall(s, data) ==
  IF ~s.is_open THEN Out(s, <<>>, <<>>, <<>>, TRUE, data)
  ELSE receive_loop(Out([s EXCEPT !.rx_state = RCV_IDLE], <<>>, <<>>, <<>>, TRUE, data), data)

slip_receive(s, data) ==
  IF ~s.is_open THEN Out(s, <<>>, <<>>, <<>>, TRUE, data)
  ELSE receive_loop(Out(s, <<>>, <<>>, <<>>, TRUE, data), data)

(***************************************************************************)
(* decom::msg on the message pool: pages of PageSize bytes with reference  *)
(* counts and a LIFO free list.  A message is a list of pages and the      *)
(* window (head, tail) on them: its bytes are pages[0][head..PageSize),    *)
(* the pages between, and pages[k-1][0..tail).  abs is the observer of a   *)
(* message: the bytes a deque holds after the same calls.                  *)
(***************************************************************************)
Msgs == 1..MaxMsgs

\* the pool and the messages after construction
msg_pool ==
  [ rc   |-> [p \in 1..PoolPages |-> 0],
    data |-> [p \in 1..PoolPages |-> [k \in 1..PageSize |-> 0]],
    free |-> [p \in 1..PoolPages |-> p],
    used_pages |-> 0, used_pages_max |-> 0,
    m    |-> [id \in Msgs |-> [pages |-> <<>>, head |-> 0, tail |-> 0, abs |-> <<>>]] ]

\* fault: the window is read from the start of the first page
Bytes_NoHead(pm, id) ==
  LET x == pm.m[id]
  IN  [i \in 1..Len(x.abs) |->
         pm.data[x.pages[((i - 1) \div PageSize) + 1]][((i - 1) % PageSize) + 1]]

\* the bytes of message id, read through its pages
Bytes(pm, id) ==
  LET x   == pm.m[id]
      k   == Len(x.pages)
      all == [i \in 1..(k * PageSize) |->
                pm.data[x.pages[((i - 1) \div PageSize) + 1]][((i - 1) % PageSize) + 1]]
  IN  IF k = 0 THEN <<>>
      ELSE SubSeq(all, x.head + 1, k * PageSize - (PageSize - x.tail))

\* fault: a message never takes its pages for shared
Shared_Never(pm, id) == FALSE

\* a page of message id is referenced by another message as well
Shared(pm, id) ==
  \E i \in 1..Len(pm.m[id].pages) : pm.rc[pm.m[id].pages[i]] > 1

\* one call of message id: push_back(v), push_front(v), pop_back(), pop_front(),
\* clear() (and the destructor), ref_copy(other), and clear_used_pages_max() of
\* the pool.  A message whose pages are shared refuses every mutation.
MsgOp(pm, op, id, other, v) ==
  LET x      == pm.m[id]
      k      == Len(x.pages)
      none   == [pages |-> <<>>, head |-> 0, tail |-> 0, abs |-> <<>>]
      shared == Shared(pm, id)
      fail   == [pm |-> pm, ret |-> FALSE]
      \* msg_pool: a page is taken from the free list
      Acquire(pool, p) ==
        [pool EXCEPT !.free = Tail(@), !.rc[p] = 1, !.used_pages = @ + 1,
                     !.used_pages_max = IF @ > pool.used_pages THEN @
                                        ELSE pool.used_pages + 1]
      \* msg_pool: the pages ps are released one after the other
      Release(pool, ps) ==
        LET zero == SelectSeq(ps, LAMBDA p : pool.rc[p] = 1)
        IN  [pool EXCEPT !.rc = [p \in DOMAIN @ |->
                                   IF \E i \in 1..Len(ps) : ps[i] = p
                                   THEN @[p] - 1 ELSE @[p]],
                         !.free = [i \in 1..Len(zero) |-> zero[Len(zero) + 1 - i]] \o @,
                         !.used_pages = @ - Len(zero)]
  IN  CASE op = "push_back" ->
             IF shared THEN fail
             ELSE IF k = 0 \/ x.tail = PageSize
             THEN IF pm.free = <<>> THEN fail
                  ELSE LET p == Head(pm.free)
                       IN  [pm |-> [Acquire(pm, p) EXCEPT
                                       !.data[p][1] = v,
                                       !.m[id] = [pages |-> x.pages \o <<p>>,
                                                  head |-> IF k = 0 THEN 0 ELSE x.head,
                                                  tail |-> 1, abs |-> x.abs \o <<v>>]],
                            ret |-> TRUE]
             ELSE [pm |-> [pm EXCEPT !.data[x.pages[k]][x.tail + 1] = v,
                                       !.m[id].tail = @ + 1,
                                       !.m[id].abs = @ \o <<v>>],
                   ret |-> TRUE]
        [] op = "push_front" ->
             IF shared THEN fail
             ELSE IF k = 0 \/ x.head = 0
             THEN IF pm.free = <<>> THEN fail
                  ELSE LET p == Head(pm.free)
                       IN  [pm |-> [Acquire(pm, p) EXCEPT
                                       !.data[p][PageSize] = v,
                                       !.m[id] = [pages |-> <<p>> \o x.pages,
                                                  head |-> PageSize - 1,
                                                  tail |-> IF k = 0 THEN PageSize ELSE x.tail,
                                                  abs |-> <<v>> \o x.abs]],
                            ret |-> TRUE]
             ELSE [pm |-> [pm EXCEPT !.data[x.pages[1]][x.head] = v,
                                       !.m[id].head = @ - 1,
                                       !.m[id].abs = <<v>> \o @],
                   ret |-> TRUE]
        [] op = "pop_back" ->
             IF shared \/ k = 0 THEN fail
             ELSE IF k = 1 /\ x.tail - 1 = x.head
             THEN [pm |-> [Release(pm, x.pages) EXCEPT !.m[id] = none], ret |-> TRUE]
             ELSE IF x.tail = 1
             THEN [pm |-> [Release(pm, <<x.pages[k]>>) EXCEPT
                              !.m[id].pages = SubSeq(x.pages, 1, k - 1),
                              !.m[id].tail = PageSize,
                              !.m[id].abs = SubSeq(@, 1, Len(@) - 1)],
                   ret |-> TRUE]
             ELSE [pm |-> [pm EXCEPT !.m[id].tail = @ - 1,
                                       !.m[id].abs = SubSeq(@, 1, Len(@) - 1)],
                   ret |-> TRUE]
        [] op = "pop_front" ->
             IF shared \/ k = 0 THEN fail
             ELSE IF k = 1 /\ x.head + 1 = x.tail
             THEN [pm |-> [Release(pm, x.pages) EXCEPT !.m[id] = none], ret |-> TRUE]
             ELSE IF x.head + 1 = PageSize
             THEN [pm |-> [Release(pm, <<x.pages[1]>>) EXCEPT
                              !.m[id].pages = Tail(x.pages),
                              !.m[id].head = 0,
                              !.m[id].abs = Tail(@)],
                   ret |-> TRUE]
             ELSE [pm |-> [pm EXCEPT !.m[id].head = @ + 1, !.m[id].abs = Tail(@)],
                   ret |-> TRUE]
        [] op = "clear" ->
             [pm |-> [Release(pm, x.pages) EXCEPT !.m[id] = none], ret |-> TRUE]
        [] op = "ref_copy" ->
             LET c == [Release(pm, x.pages) EXCEPT !.m[id] = none]
                 o == c.m[other]
             IN  [pm |-> [c EXCEPT !.rc = [p \in DOMAIN @ |->
                                              IF \E i \in 1..Len(o.pages) : o.pages[i] = p
                                              THEN @[p] + 1 ELSE @[p]],
                                    !.m[id] = o],
                  ret |-> TRUE]
        [] OTHER ->
             [pm |-> [pm EXCEPT !.used_pages_max = pm.used_pages], ret |-> TRUE]

(***************************************************************************)
(* The communicators com_serial.h and com_tcp.h, as far as open() and      *)
(* close() go.  A handle or socket is TRUE when it is valid.  fail is the  *)
(* step of open() that fails, "none" when every step succeeds.             *)
(***************************************************************************)
\* the constructor of serial, with a layer on top
\* ov: the overlapped write of tx_overlapped_ is pending; acked: the worker
\* thread has raised the indication of a write and not yet reset tx_busy_
serial == [thread_handle |-> FALSE, com_handle |-> FALSE, tx_busy |-> FALSE,
           upper |-> TRUE, ov |-> FALSE, acked |-> FALSE]

\* fault: the port closed indication is raised whether or not a port was open
serial_close_Always(s) ==
  Out([s EXCEPT !.thread_handle = FALSE, !.com_handle = FALSE, !.ov = FALSE,
                !.acked = FALSE], <<>>, <<>>, <<"disconnected">>, TRUE, <<>>)

\* serial::close; the worker thread is terminated and the handle closed, a
\* pending write is gone with them
serial_close(s) ==
  Out([s EXCEPT !.thread_handle = FALSE, !.com_handle = FALSE, !.ov = FALSE,
                !.acked = FALSE], <<>>, <<>>,
      IF s.com_handle THEN <<"disconnected">> ELSE <<>>, TRUE, <<>>)

\* serial::send; fail is the outcome of WriteFile: "short" for fewer bytes
\* written than given, "error" for an error other than ERROR_IO_PENDING
serial_send(s, fail) ==
  IF ~s.com_handle \/ s.tx_busy THEN Out(s, <<>>, <<>>, <<>>, FALSE, <<>>)
  ELSE IF fail \in {"short", "error"}
  THEN Out([s EXCEPT !.tx_busy = FALSE], <<>>, <<>>, <<>>, FALSE, <<>>)
  ELSE Out([s EXCEPT !.tx_busy = TRUE, !.ov = TRUE], <<>>, <<>>, <<>>, TRUE, <<>>)

\* serial::worker_thread, the tx event: the indication is raised, and in a
\* second step, which send() of another thread may precede, tx_busy_ is reset
worker_thread(s, ok) ==
  IF ~s.acked
  THEN Out([s EXCEPT !.ov = FALSE, !.acked = TRUE], <<>>, <<>>,
           <<IF ok THEN "tx_done" ELSE "tx_error">>, TRUE, <<>>)
  ELSE Out([s EXCEPT !.acked = FALSE, !.tx_busy = FALSE], <<>>, <<>>, <<>>, TRUE, <<>>)

\* serial::open; "address" is an empty address.  A thread handle of NULL is
\* not INVALID_HANDLE_VALUE, close() takes it for a thread.
serial_open(s, fail) ==
  IF ~s.upper \/ fail = "address" THEN Out(s, <<>>, <<>>, <<>>, FALSE, <<>>)
  ELSE LET c  == serial_close(s)
           f  == [c.s EXCEPT !.com_handle = TRUE]
           t  == [f EXCEPT !.tx_busy = FALSE, !.thread_handle = TRUE]
           cf == serial_close(f)
           ct == serial_close(t)
       IN  CASE fail = "CreateFile" -> Out(c.s, <<>>, <<>>, c.inds, FALSE, <<>>)
             [] fail \in {"set_param", "SetCommTimeouts"}
                  -> Out(cf.s, <<>>, <<>>, c.inds \o cf.inds, FALSE, <<>>)
             [] fail = "_beginthreadex"
                  -> Out(ct.s, <<>>, <<>>, c.inds \o ct.inds, FALSE, <<>>)
             [] OTHER -> Out(t, <<>>, <<>>, c.inds \o <<"connected">>, TRUE, <<>>)

\* the constructor of tcp, with a layer on top; client_contexts_ is the set of
\* the endpoints a context is registered for
\* wsa_len: the endpoints whose send.wsa_buffer.len is not 0; ov: the endpoints
\* with an overlapped WSASend pending; it: the iterator send() holds between
\* find() and its use; undefined: a deleted context was used
tcp(server) == [server |-> server, socket_ |-> FALSE, accept_thread_ |-> FALSE,
                client_contexts_ |-> {}, upper |-> TRUE, wsa_len |-> {}, ov |-> {},
                it |-> "none", undefined |-> FALSE]

\* tcp::open; calls are the accesses to client_contexts_ and the lock and
\* unlock of client_contexts_mutex_ around them
tcp_open(s, fail) ==
  LET o ==
  IF ~s.upper \/ s.socket_ \/ fail \in {"resolve_address", "WSASocket"}
  THEN Out(s, <<>>, <<>>, <<>>, FALSE, <<>>)
  ELSE IF s.server
  THEN IF fail \in {"bind", "listen", "setsockopt"}
       THEN Out([s EXCEPT !.socket_ = TRUE], <<>>, <<>>, <<>>, FALSE, <<>>)
       ELSE Out([s EXCEPT !.socket_ = TRUE, !.accept_thread_ = TRUE],
                <<>>, <<>>, <<>>, TRUE, <<>>)
  ELSE CASE fail = "connect" -> Out(s, <<>>, <<>>, <<>>, FALSE, <<>>)
         [] fail = "CreateIoCompletionPort"
              -> Out([s EXCEPT !.client_contexts_ = @ \cup {"eid_any"}],
                     <<>>, <<>>, <<>>, FALSE, <<>>)
         [] OTHER
              -> Out([s EXCEPT !.socket_ = TRUE,
                               !.client_contexts_ = @ \cup {"eid_any"}],
                     <<>>, <<>>, <<"connected">>, TRUE, <<>>)
  IN  o @@ [calls |-> IF o.s.client_contexts_ # s.client_contexts_
                      THEN <<"lock", "insert", "unlock">> ELSE <<>>]

\* tcp::close; the contexts are erased by the data threads
tcp_close(s) ==
  IF ~s.socket_ THEN Out(s, <<>>, <<>>, <<>>, TRUE, <<>>) @@ [calls |-> <<>>]
  ELSE Out([s EXCEPT !.socket_ = FALSE, !.accept_thread_ = FALSE],
           <<>>, <<>>, <<>>, TRUE, <<>>) @@ [calls |-> <<"iterate">>]

\* tcp::send in two steps, which a data thread may separate: find(), after
\* which s.it is the iterator, and the use of the context it points to; fail
\* is WSASend failing with an error other than WSA_IO_PENDING
tcp_send(s, id, fail) ==
  LET k == IF s.server THEN id ELSE "eid_any"
  IN  IF s.it = "none"
      THEN IF ~s.socket_ THEN Out(s, <<>>, <<>>, <<>>, FALSE, <<>>) @@ [calls |-> <<>>]
           ELSE IF k \notin s.client_contexts_
           THEN Out(s, <<>>, <<>>, <<>>, FALSE, <<>>) @@ [calls |-> <<"find">>]
           ELSE Out([s EXCEPT !.it = k], <<>>, <<>>, <<>>, FALSE, <<>>)
                @@ [calls |-> <<"find">>]
      ELSE IF s.it \notin s.client_contexts_
      THEN Out([s EXCEPT !.it = "none", !.undefined = TRUE], <<>>, <<>>, <<>>, FALSE, <<>>)
           @@ [calls |-> <<>>]
      ELSE IF s.it \in s.wsa_len
      THEN Out([s EXCEPT !.it = "none"], <<>>, <<>>, <<>>, FALSE, <<>>) @@ [calls |-> <<>>]
      ELSE IF fail
      THEN Out([s EXCEPT !.it = "none", !.wsa_len = @ \cup {s.it}],
               <<>>, <<>>, <<"tx_error">>, FALSE, <<>>) @@ [calls |-> <<>>]
      ELSE Out([s EXCEPT !.it = "none", !.wsa_len = @ \cup {s.it}, !.ov = @ \cup {s.it}],
               <<>>, <<>>, <<>>, TRUE, <<>>) @@ [calls |-> <<>>]

\* tcp::accept_thread: a client with endpoint id has connected
accept_thread(s, id) ==
  Out([s EXCEPT !.client_contexts_ = @ \cup {id}], <<>>, <<>>, <<"connected">>, TRUE, <<>>)
  @@ [calls |-> <<"lock", "insert", "unlock">>]

\* tcp::data_thread takes a completion of the context of endpoint id: "closed"
\* for no byte transferred or a failed operation, "sent" for a send that
\* transferred the whole buffer, "rest" for one that transferred a part and
\* whose rest is sent on, "rest_failed" for one whose rest WSASend refuses
data_thread(s, id, ev) ==
  CASE ev = "closed"
         -> Out([s EXCEPT !.client_contexts_ = @ \ {id}, !.wsa_len = @ \ {id},
                          !.ov = @ \ {id}], <<>>, <<>>, <<"disconnected">>, TRUE, <<>>)
            @@ [calls |-> <<"lock", "erase", "unlock">>]
    [] ev = "sent"
         -> Out([s EXCEPT !.wsa_len = @ \ {id}, !.ov = @ \ {id}],
                <<>>, <<>>, <<"tx_done">>, TRUE, <<>>) @@ [calls |-> <<>>]
    [] ev = "rest_failed"
         -> Out([s EXCEPT !.ov = @ \ {id}], <<>>, <<>>, <<"tx_error">>, TRUE, <<>>)
            @@ [calls |-> <<>>]
    [] OTHER -> Out(s, <<>>, <<>>, <<>>, TRUE, <<>>) @@ [calls |-> <<>>]

(***************************************************************************)
(* The stack around an iso15765 instance.  Below it a communicator that    *)
(* accepts a frame (send returns true) or rejects it, and acknowledges     *)
(* every accepted frame later with tx_done or tx_error; above it a device  *)
(* that collects what is delivered.                                        *)
(***************************************************************************)
\* layer::send of the lower layer: the frames it accepted are on the wire
lower_send(w, offered, lower) == IF lower THEN w \o offered ELSE w

\* frames that passed the address filter of receive()
Accepted(s, frame) == ~s.use_ext_adr \/ frame[1] = s.ext_source_adr
Body(s, frame)     == IF s.use_ext_adr THEN Tail(frame) ELSE frame
IsFC(s, frame)     == Accepted(s, frame)
                      /\ HiNibble(Body(s, frame)[1]) = NPCI_FLOW_CONTROL

\* no transfer, no timer, no send_CF call in progress
Idle(s) == /\ s.CF_DL = 0 /\ s.CF_frame = <<>>
           /\ ~s.timer_TX_CF /\ ~s.timer_TX_FC /\ ~s.timer_RX_CF /\ ~s.cf_wait

\* the observer of a transmission: the payload of the last accepted multi-frame
\* send (txp), the Consecutive Frames the lower layer accepted since (ncf),
\* whether a Flow Control frame arrived since (fc), and whether the transmission
\* started on an idle layer (idle) and has run undisturbed since (clean): no
\* frame other than Flow Control was received, no timer expired, the layer was
\* not reopened or closed.
\* On loopback every message is Pattern(n, 0, 1), and the observer keeps the
\* length n of the last accepted one (len) in place of the payload; it also
\* counts the Flow Control frames the instance has passed down as a receiver
\* since the one that answered the last First Frame (nfc).  blk counts the
\* Consecutive Frames the lower layer accepted since the last Flow Control
\* frame, rej tells that the lower layer rejected the last Consecutive Frame.
Observer == [txp |-> <<>>, ncf |-> 0, fc |-> FALSE, idle |-> FALSE, clean |-> FALSE,
             len |-> 0, nfc |-> 0, blk |-> 0, rej |-> FALSE]

\* the Flow Control frames counted after a frame other than Flow Control
ObserveFC(g, pre, o, lower, arg) ==
  IF ~looped THEN g.nfc
  ELSE IF HiNibble(Body(pre, arg)[1]) = NPCI_FIRST_FRAME THEN 0
  ELSE IF lower THEN g.nfc + Len(o.offered) ELSE g.nfc

Observe(g, op, pre, o, lower, arg) ==
  CASE op = "send" /\ o.ret /\ Len(arg) > SFrameMax(pre)
         -> [txp |-> IF looped THEN <<>> ELSE arg, ncf |-> 0, fc |-> FALSE,
             idle |-> Idle(pre), clean |-> Idle(pre),
             len |-> IF looped THEN Len(arg) ELSE 0, nfc |-> g.nfc, blk |-> 0,
             rej |-> FALSE]
    [] op = "send" /\ o.ret /\ Len(arg) <= SFrameMax(pre)
         -> [g EXCEPT !.len = IF looped THEN Len(arg) ELSE 0]
    [] op = "receive" /\ IsFC(pre, arg)      -> [g EXCEPT !.fc = TRUE, !.blk = 0]
    [] op = "receive" /\ Accepted(pre, arg) /\ ~IsFC(pre, arg)
         -> [g EXCEPT !.clean = FALSE, !.nfc = ObserveFC(g, pre, o, lower, arg)]
    [] op = "send_CF" /\ lower
         -> [g EXCEPT !.ncf = @ + 1, !.blk = @ + 1, !.rej = FALSE]
    [] op = "send_CF" /\ ~lower              -> [g EXCEPT !.rej = TRUE]
    [] op \in {"send_CF_timeout", "timer_TX_FC", "timer_RX_CF", "open", "close"}
         -> [g EXCEPT !.clean = FALSE]
    [] OTHER -> g

\* the handlers the application and the peer call; the others are called by the
\* timers and by the communicator for a frame it had accepted or, on loopback,
\* for a frame it takes from the wire
External == {"send", "receive", "status", "open", "close"}

\* one handler of instance i ran: op with input arg, the lower layer answering
\* lower to every frame offered, having acknowledged done frames and having
\* taken the oldest taken frames of the peer from the wire, with the outcome o
Ran(i, op, arg, lower, done, taken, o) ==
  /\ stack # "slip"
  /\ ~tp[i].undefined
  /\ inputs' = IF op \in External /\ taken = 0 THEN inputs + 1 ELSE inputs
  /\ tp'   = [tp EXCEPT ![i] = o.s]
  /\ wire' = [j \in Inst |->
               IF j # i THEN SubSeq(wire[j], taken + 1, Len(wire[j]))
               ELSE IF looped THEN lower_send(wire[j], o.offered, lower) ELSE wire[j]]
  /\ ack'  = [ack EXCEPT ![i] = (IF lower THEN @ + Len(o.offered) ELSE @) - done]
  /\ up'   = [up EXCEPT ![i] = IF looped THEN @ \o o.ups ELSE @]
  /\ gh'   = [gh EXCEPT ![i] = Observe(@, op, tp[i], o, lower, arg)]
  /\ last' = [op |-> op, i |-> i, lower |-> lower /\ o.offered # <<>>, ret |-> o.ret,
              offered |-> o.offered, ups |-> o.ups, inds |-> o.inds,
              intact |-> o.data = arg, busy |-> tp[i].CF_DL # 0,
              npci |-> IF op = "receive" /\ Accepted(tp[i], arg)
                       THEN HiNibble(Body(tp[i], arg)[1]) ELSE -1]
  /\ UNCHANGED <<stack, slipVars, com, mem, ntp>>

\* upper layer: send(data)
Send(i, data, lower) == Ran(i, "send", data, lower, 0, 0, send(tp[i], data, lower))

\* lower layer: receive(frame); lower answers the Flow Control frame, if one is sent
Receive(i, frame, lower) ==
  Ran(i, "receive", frame, lower, 0, 0, receive(tp[i], frame))

\* loopback communicator: the oldest frame of the peer is received
Deliver(i) ==
  /\ wire[Peer(i)] # <<>>
  /\ Ran(i, "receive", Head(wire[Peer(i)]), TRUE, 0, 1,
         receive(tp[i], Head(wire[Peer(i)])))

\* lower layer: indication(code) for a frame it had accepted (tx_done, tx_error)
Acknowledge(i, code) ==
  /\ ack[i] > 0
  /\ Ran(i, "indication", <<code>>, FALSE, 1, 0, indication(tp[i], code))

\* lower layer: indication(code) of a connection event
Indication(i, code) == Ran(i, "status", <<code>>, FALSE, 0, 0, indication(tp[i], code))

\* timer TX_CF expires: send_CF is called and builds the frame
TimerTXCF(i) ==
  /\ tp[i].timer_TX_CF /\ ~tp[i].cf_wait
  /\ Ran(i, "timer_TX_CF", <<>>, FALSE, 0, 0,
         Out(send_CF_build(tp[i]), <<>>, <<>>, <<>>, TRUE, <<>>))

\* send_CF finds tx_ev_ set and offers the frame to the lower layer
SendCF(i, lower) ==
  /\ tp[i].cf_wait /\ tp[i].tx_ev
  /\ Ran(i, "send_CF", <<>>, lower, 0, 0, send_CF(tp[i], lower))

\* send_CF gives up waiting after N_As
SendCFTimeout(i) ==
  /\ tp[i].cf_wait /\ ~tp[i].tx_ev
  /\ Ran(i, "send_CF_timeout", <<>>, FALSE, 0, 0, send_CF_timeout(tp[i]))

\* timer TX_FC (N_Bs) expires
TimerTXFC(i) ==
  /\ tp[i].timer_TX_FC
  /\ Ran(i, "timer_TX_FC", <<>>, FALSE, 0, 0,
         send_CF_abort([tp[i] EXCEPT !.timer_TX_FC = FALSE]))

\* timer RX_CF (N_Cr) expires
TimerRXCF(i) ==
  /\ tp[i].timer_RX_CF
  /\ Ran(i, "timer_RX_CF", <<>>, FALSE, 0, 0,
         send_CF_abort([tp[i] EXCEPT !.timer_RX_CF = FALSE]))

Open(i, lower) == Ran(i, "open", <<>>, lower, 0, 0, open(tp[i], lower))
Close(i)       == Ran(i, "close", <<>>, FALSE, 0, 0, close(tp[i]))

(***************************************************************************)
(* Inputs.                                                                 *)
(***************************************************************************)
\* the stack of the tests, iso15765(lower, 50, 3, 4095), with and without
\* extended addressing and zero padding
Stacks ==
  { iso15765(50, 3, 4095, ext, 241, 242, pad) : ext \in BOOLEAN, pad \in BOOLEAN }

NoLast == [op |-> "none", i |-> 1, lower |-> FALSE, ret |-> FALSE,
           offered |-> <<>>, ups |-> <<>>, inds |-> <<>>, intact |-> TRUE,
           busy |-> FALSE, npci |-> -1]

\* messages the application sends: the empty one, the one of SFtest, every
\* length from the smallest First Frame payload to MaxLen (the one of CFtest),
\* one of MidLen bytes, one too long
Payloads ==
  { Pattern(n, 1, 1) : n \in FF_DATALENGTH_EXT..MaxLen }
  \cup { <<>>, <<1, 5, 9>>, Pattern(MidLen, 1, 1), Pattern(CF_MAX_FRAME_SIZE + 1, 0, 1) }

\* the next bytes of a message under reception: byte k of it is k mod 256
Continue(s, n) == [k \in 1..n |-> (Len(s.CF_frame) + k - 1) % 256]

\* frames the peer may send, without the address byte
Bodies(s) ==
  \* Single Frames: well-formed, padded, DL above the maximum, shorter than DL
  { <<3, 1, 5, 9>>, <<2, 1, 2, 0, 0, 0, 0, 0>>, <<3, 1>>,
    <<SFrameMax(s) + 1>> \o Pattern(SFrameMax(s) + 1, 1, 1) }
  \* First Frames with a declared length around the minimum and of two blocks
  \cup { <<NPCI_FIRST_FRAME, dl>> \o Pattern(FFMax(s), 0, 1) :
           dl \in {FFMax(s) + 1, FFMax(s) + 2, FFMax(s) + CFMax(s) + 2} }
  \* Consecutive Frames with the expected and a wrong sequence number, full and
  \* cut to the bytes that are missing
  \cup { <<NPCI_CONSECUTIVE_FRAME + LoNibble(s.CF_SN + d)>> \o Continue(s, n) :
           d \in {0, 1},
           n \in {CFMax(s), Min(CFMax(s), IF s.CF_DL > Len(s.CF_frame)
                                         THEN s.CF_DL - Len(s.CF_frame) ELSE 1)} }
  \* Flow Control: CTS with a block size, WAIT, OVERFLOW, too short
  \cup { <<NPCI_FLOW_CONTROL + FC_CTS, bs, 0>> : bs \in 0..1 }
  \cup { <<NPCI_FLOW_CONTROL + FC_WAIT, 0, 0>>, <<NPCI_FLOW_CONTROL + FC_OVERFLOW, 0, 0>>,
         <<NPCI_FLOW_CONTROL + FC_CTS, 0>> }
  \* an unknown N_PCI
  \cup { <<64>> }

\* the frames on the wire: with the address byte if extended addressing is used,
\* one of them with the address of another node
Frames(s) ==
  IF s.use_ext_adr
  THEN { <<s.ext_source_adr>> \o b : b \in Bodies(s) }
       \cup { <<(s.ext_source_adr + 1) % 256, NPCI_FLOW_CONTROL + FC_CTS, 0, 0>> }
  ELSE Bodies(s)

(***************************************************************************)
(* dev::sntp: get_time runs on the thread of the application, timeout on   *)
(* the thread of the timer, receive on the thread of the communicator;     *)
(* receive calls timeout itself when it discards a response.  Every thread *)
(* runs its function a statement at a time: pc[t] is the statement thread  *)
(* t executes next, rd[t] the value of retries_ it has read.               *)
(***************************************************************************)
MAX_RETRIES == 3

\* sntp::sntp: the members, and the threads at rest; ret and time are what the
\* last get_time returned and what it left in the variable of the caller.
\* Observers, which no function of sntp reads: the calls of get_time and the
\* responses of the server so far (calls, resps), whether a request was ever
\* sent (asked), the requests the running call has passed to device::send
\* (sent), those of them the lower layer took and the server has not answered
\* (out), and whether a valid response to one of them was received (got)
sntp ==
  [retries |-> 0, timer |-> FALSE, rx_ev |-> FALSE, ntp_header |-> "none",
   pc |-> [t \in {"app", "timer", "com"} |-> "idle"],
   rd |-> [t \in {"app", "timer", "com"} |-> 0],
   ret |-> "none", time |-> "caller",
   calls |-> 0, resps |-> 0, asked |-> FALSE, sent |-> 0, out |-> 0, got |-> FALSE]

\* sntp::request on thread t, one statement: the header is assembled and the
\* timer started, the event is reset, the request is sent (ok: device::send)
request(s, t, ok) ==
  CASE s.pc[t] = "start" -> [s EXCEPT !.ntp_header = "client", !.timer = TRUE,
                                      !.pc[t] = "reset"]
    [] s.pc[t] = "reset" -> [s EXCEPT !.rx_ev = FALSE, !.pc[t] = "send"]
    [] OTHER             -> [s EXCEPT !.pc[t] = IF ok THEN "sent" ELSE "failed"]

\* sntp::timeout on thread t, one statement: retries_ is read, then written and
\* compared, then request runs or the event is set
timeout(s, t) ==
  CASE s.pc[t] = "timeout" -> [s EXCEPT !.rd[t] = s.retries, !.pc[t] = "inc"]
    [] s.pc[t] = "inc"
         -> IF s.rd[t] < MAX_RETRIES
            THEN [s EXCEPT !.retries = (s.rd[t] + 1) % 256, !.pc[t] = "start"]
            ELSE [s EXCEPT !.retries = (s.rd[t] + 1) % 256, !.rx_ev = TRUE,
                           !.pc[t] = "idle"]
    [] OTHER -> LET r == request(s, t, TRUE)
                IN  IF r.pc[t] = "sent" THEN [r EXCEPT !.pc[t] = "idle"] ELSE r

\* sntp::receive up to its call of timeout or its rx_ev_.set(): data is the
\* size of the response, its mode byte and whether its four timestamps are
\* all different from zero
sntp_receive(s, data) ==
  LET NTP_HEADER_LEN     == 48
      NTP_HEADER_EXT_LEN == 68
      NTP_MODE_SERVER    == 4
      s0 == [s EXCEPT !.timer = FALSE]
  IN  IF data.size # NTP_HEADER_LEN /\ data.size # NTP_HEADER_EXT_LEN
      THEN [s0 EXCEPT !.pc["com"] = "timeout"]
      ELSE IF ~data.stamps \/ data.mode % 8 # NTP_MODE_SERVER
           THEN [s0 EXCEPT !.ntp_header = "invalid", !.pc["com"] = "timeout"]
           ELSE [s0 EXCEPT !.ntp_header = "server", !.rx_ev = TRUE]

\* sntp::get_time, one statement: the call, request, the wait for rx_ev_ and
\* the return
get_time(s, ok) ==
  CASE s.pc["app"] = "idle"
         -> [s EXCEPT !.retries = 0, !.pc["app"] = "start", !.ret = "none",
                      !.time = "caller"]
    [] s.pc["app"] = "wait"
         -> IF s.retries >= MAX_RETRIES
            THEN [s EXCEPT !.pc["app"] = "idle", !.ret = "false", !.time = "zero"]
            ELSE [s EXCEPT !.pc["app"] = "idle", !.ret = "true",
                           !.time = IF s.ntp_header = "server" THEN "server"
                                    ELSE "undefined"]
    [] OTHER
         -> LET r == request(s, "app", ok)
            IN  IF r.pc["app"] = "sent" THEN [r EXCEPT !.pc["app"] = "wait"]
                ELSE IF r.pc["app"] = "failed"
                     THEN [r EXCEPT !.pc["app"] = "idle", !.ret = "false"]
                     ELSE r

(***************************************************************************)
(* Spec: one iso15765 instance between a generic communicator and a        *)
(* generic device (the stack of SFtest and CFtest).  The communicator may  *)
(* reject frames, the peer may send any frame at any time, timers may      *)
(* expire at any time.                                                     *)
(***************************************************************************)
InitSlip ==
  /\ sl = slip /\ slwire = <<>>
  /\ slgh = [pkt |-> <<>>, whole |-> FALSE, due |-> <<>>, lead |-> <<>>,
            raw |-> <<>>, stale |-> FALSE, fr |-> 0]
  /\ com = [kind |-> "serial", top |-> FALSE, s |-> serial, calls |-> <<>>,
            prev |-> "none"]
  /\ mem = msg_pool /\ ntp = sntp

Init ==
  /\ tp \in { [i \in Inst |-> s] : s \in Stacks }
  /\ wire = [i \in Inst |-> <<>>]
  /\ ack  = [i \in Inst |-> 0]
  /\ up   = [i \in Inst |-> <<>>]
  /\ gh   = [i \in Inst |-> Observer]
  /\ stack = "iso15765"
  /\ inputs = 0
  /\ last = NoLast
  /\ InitSlip

\* the communicator accepts a frame only while fewer than MaxAck are unacknowledged
Room(i, lower) == lower => ack[i] < MaxAck

\* the application and the peer make at most MaxInputs calls
More == inputs < MaxInputs

AppSend     == \E data \in Payloads, lower \in BOOLEAN :
                 More /\ Room(1, lower) /\ Send(1, data, lower)
ComReceive  == \E frame \in Frames(tp[1]), lower \in BOOLEAN :
                 More /\ Room(1, lower) /\ Receive(1, frame, lower)
ComDone     == \E code \in {"tx_done", "tx_error"} : Acknowledge(1, code)
ComStatus   == \E code \in {"connected", "disconnected"} : More /\ Indication(1, code)
FireTXCF    == TimerTXCF(1)
RunSendCF   == \E lower \in BOOLEAN : Room(1, lower) /\ SendCF(1, lower)
WaitTimeout == SendCFTimeout(1)
FireTXFC    == TimerTXFC(1)
FireRXCF    == TimerRXCF(1)
AppOpen     == \E lower \in BOOLEAN : More /\ Open(1, lower)
AppClose    == More /\ Close(1)

Next ==
  \/ AppSend \/ ComReceive \/ ComDone \/ ComStatus
  \/ FireTXCF \/ RunSendCF \/ WaitTimeout \/ FireTXFC \/ FireRXCF
  \/ AppOpen \/ AppClose

Spec == Init /\ [][Next]_vars

(***************************************************************************)
(* SpecLoop: two iso15765 instances with the same settings on loopback     *)
(* communicators (the stack of looptest).  Instance 1 sends one message.   *)
(* Every frame is accepted, delivered to the peer in order and then        *)
(* acknowledged with tx_done; a timeout expires only when what it waits    *)
(* for cannot come any more.                                               *)
(***************************************************************************)
LoopStacks ==
  { iso15765(50, bs, 4095, ext, 241, 241, pad) :
      bs \in {0, 3}, ext \in BOOLEAN, pad \in BOOLEAN }

LoopPayloads ==
  { Pattern(n, 0, 1) :
      n \in (1..MaxLen) \cup {MidLen, LongLen, 1000, CF_MAX_FRAME_SIZE} }

InitLoop ==
  /\ tp \in { [i \in Inst |-> s] : s \in LoopStacks }
  /\ wire = [i \in Inst |-> <<>>]
  /\ ack  = [i \in Inst |-> 0]
  /\ up   = [i \in Inst |-> <<>>]
  /\ gh   = [i \in Inst |-> Observer]
  /\ stack = "loopback"
  /\ inputs = 0
  /\ last = NoLast
  /\ InitSlip

\* the communicators are at work: a frame or an acknowledgement is on its way
Busy == \E i \in Inst : wire[i] # <<>> \/ ack[i] > 0

\* a send_CF call can go on
Ready == \E i \in Inst : tp[i].cf_wait /\ tp[i].tx_ev

\* nothing is on its way and no Consecutive Frame is due
Stalled == ~Busy /\ \A i \in Inst : ~tp[i].timer_TX_CF /\ ~tp[i].cf_wait

\* the communicators deliver and acknowledge within STmin, and STmin is shorter
\* than N_As, N_Bs and N_Cr
LoopSend    == \E data \in LoopPayloads : inputs = 0 /\ Send(1, data, TRUE)
LoopDeliver == \E i \in Inst : Deliver(i)
LoopDone    == \E i \in Inst : ack[i] > Len(wire[i]) /\ Acknowledge(i, "tx_done")
LoopSendCF  == \E i \in Inst : ~Busy /\ SendCF(i, TRUE)
LoopTXCF    == \E i \in Inst : ~Busy /\ ~Ready /\ TimerTXCF(i)
LoopRXCF    == \E i \in Inst : Stalled /\ TimerRXCF(i)

NextLoop ==
  \/ LoopSend \/ LoopDeliver \/ LoopDone \/ LoopTXCF \/ LoopSendCF
  \/ LoopRXCF

\* the message instance 1 has accepted
LoopMsg == Pattern(gh[1].len, 0, 1)

\* no handler will run any more
LoopOver ==
  /\ inputs = 1 /\ ~Busy
  /\ \A i \in Inst : \/ tp[i].undefined
                     \/ /\ ~tp[i].timer_TX_CF /\ ~tp[i].timer_TX_FC
                        /\ ~tp[i].timer_RX_CF /\ ~tp[i].cf_wait

SpecLoop == InitLoop /\ [][NextLoop]_vars

(***************************************************************************)
(* SpecSlip: one slip instance between a device and a communicator whose   *)
(* transmit line is wired to its receive line.  The communicator may       *)
(* reject a frame and may not open; the line may also carry any other      *)
(* byte.                                                                   *)
(***************************************************************************)
\* one handler of slip ran with the outcome o; frame is what the line carries
\* afterwards and g what the observer holds.  The observer also keeps the bytes
\* the open layer has received since the last END (raw), and whether the
\* receive buffer holds bytes from before an open() (stale), and how many
\* frames of non-empty packets, up to 2, the open layer has received one
\* behind the other with nothing else in between (fr).
SlipRan(op, arg, lower, o, frame, g) ==
  /\ stack = "slip"
  /\ sl'     = o.s
  /\ slwire' = frame
  /\ slgh'   =
       LET x == g.raw \o arg
           e == {j \in 1..Len(x) : x[j] = END}
           k == IF e = {} THEN 0 ELSE CHOOSE j \in e : \A m \in e : m <= j
       IN  [g EXCEPT !.raw = IF op \in {"slip_receive", "slip_deliver"} /\ sl.is_open
                             THEN SubSeq(x, k + 1, Len(x)) ELSE @,
                     !.stale = IF o.s.rx_msg = <<>> THEN FALSE
                               ELSE IF op = "slip_open" THEN TRUE ELSE @,
                     !.fr = IF op = "slip_deliver" /\ sl.is_open /\ slgh.whole
                               /\ slgh.pkt # <<>>
                            THEN Min(slgh.fr + 1, 2)
                            ELSE IF op = "slip_send" THEN @ ELSE 0]
  /\ last'   = [op |-> op, i |-> 1, lower |-> lower /\ o.offered # <<>>, ret |-> o.ret,
                offered |-> o.offered, ups |-> o.ups, inds |-> o.inds,
                intact |-> o.data = arg, busy |-> FALSE, npci |-> -1]
  /\ UNCHANGED <<isoVars, inputs, stack, com, mem, ntp>>

\* device: open(); lower is the result of the communicator's open
SlipOpen(lower) ==
  SlipRan("slip_open", <<>>, FALSE, slip_open(sl, lower), slwire, slgh)

\* device: close()
SlipClose == SlipRan("slip_close", <<>>, FALSE, slip_close(sl), slwire, slgh)

\* device: send(packet, id, more).  The observer keeps the packet of a frame the
\* communicator accepted, and whether the frame was made by this call alone.
SlipSend(packet, more, lower) ==
  LET o == slip_send(sl, packet, more, lower)
  IN  IF lower /\ o.offered # <<>>
      THEN SlipRan("slip_send", packet, lower, o, o.offered[1],
                   [slgh EXCEPT !.pkt = packet, !.whole = sl.tx_msg = <<>>])
      ELSE SlipRan("slip_send", packet, lower, o, slwire, slgh)

\* communicator: receive(data) with bytes that did not come from this instance
SlipReceive(data) ==
  SlipRan("slip_receive", data, FALSE, slip_receive(sl, data), slwire, slgh)

\* communicator: receive(data) with the frame the line carries
SlipDeliver ==
  /\ slwire # <<>>
  /\ SlipRan("slip_deliver", slwire, FALSE, slip_receive(sl, slwire), <<>>,
             [slgh EXCEPT !.pkt = <<>>, !.whole = FALSE])

\* the four boundary patterns, each alone and at the start, in the middle and at
\* the end of a packet
Patterns == {<<END>>, <<ESC>>, <<END, ESC>>, <<ESC, END>>}

SlipPackets ==
  Patterns
  \cup { x \o <<1, 2>> : x \in Patterns }
  \cup { <<1>> \o x \o <<2>> : x \in Patterns }
  \cup { <<1, 2>> \o x : x \in Patterns }
  \cup { <<>>, <<1>>, <<END, ESC, 0>>, <<ESC_END>>, <<ESC_ESC, 1>> }

\* packets the device sends as a fragment, with more = true
SlipFragments == {<<1>>, <<END>>, <<ESC, END>>}

\* bytes the line may carry besides the frames of this instance
SlipBytes == {END, ESC, ESC_END, ESC_ESC, 1}

InitSlipOnly ==
  /\ tp = [i \in Inst |-> iso15765(50, 3, 4095, FALSE, 241, 242, FALSE)]
  /\ wire = [i \in Inst |-> <<>>]
  /\ ack  = [i \in Inst |-> 0]
  /\ up   = [i \in Inst |-> <<>>]
  /\ gh   = [i \in Inst |-> Observer]
  /\ stack = "slip"
  /\ inputs = 0
  /\ last = NoLast
  /\ InitSlip

DevOpen    == \E lower \in BOOLEAN : SlipOpen(lower)
DevClose   == SlipClose
\* the device sends once the line has carried the last frame back, and one
\* fragment at most before the rest of a packet; what it sends after a fragment
\* and what the communicator rejects are the packets of SlipFragments
DevSend    == \E packet \in SlipPackets, lower \in BOOLEAN :
                /\ slwire = <<>>
                /\ (sl.tx_msg # <<>> \/ ~lower) => packet \in SlipFragments
                /\ SlipSend(packet, FALSE, lower)
DevSendMore == \E packet \in SlipFragments :
                slwire = <<>> /\ sl.tx_msg = <<>> /\ SlipSend(packet, TRUE, TRUE)
LineByte   == \E b \in SlipBytes :
                /\ b = END \/ (/\ Len(sl.rx_msg) < MaxBuf
                               /\ sl.rx_state = RCV_IDLE => slgh.raw = <<>>)
                /\ SlipReceive(<<b>>)
LineFrame  == SlipDeliver

NextSlip == DevOpen \/ DevClose \/ DevSend \/ DevSendMore \/ LineByte \/ LineFrame

SpecSlip == InitSlipOnly /\ [][NextSlip]_vars

(***************************************************************************)
(* SpecStream: an open slip instance receives a stream, the frames of a    *)
(* sequence of non-empty packets one behind the other, in receive() calls  *)
(* that cut the stream anywhere.  Before a stream the device may open and  *)
(* close and the line may carry any other byte.                            *)
(***************************************************************************)
StreamPackets == {<<1>>, <<END, 2>>, <<ESC>>}

\* the frames slip::send passes down for the packets ps when nothing is pending,
\* one behind the other
RECURSIVE Encoded(_)
Encoded(ps) ==
  IF ps = <<>> THEN <<>>
  ELSE send_loop(<<END>>, Head(ps)) \o <<END>> \o Encoded(Tail(ps))

\* the peer begins to send the frames of ps to a decoder in RCV_IDLE
StreamBegin ==
  \E ps \in UNION { [1..n -> StreamPackets] : n \in 1..MaxStream } :
    /\ stack = "slip" /\ slwire = <<>>
    /\ sl.is_open /\ sl.rx_state = RCV_IDLE
    /\ slwire' = Encoded(ps)
    /\ slgh'   = [slgh EXCEPT !.due = ps, !.lead = sl.rx_msg]
    /\ last'   = [NoLast EXCEPT !.op = "stream"]
    /\ UNCHANGED <<isoVars, inputs, stack, sl, com, mem, ntp>>

\* communicator: receive(data) with the next n bytes of the stream; the
\* observer takes what was delivered from the packets that are due
StreamFeed ==
  \E n \in 1..Len(slwire) :
    LET data == SubSeq(slwire, 1, n)
        o    == slip_receive(sl, data)
    IN  SlipRan("slip_receive", data, FALSE, o, SubSeq(slwire, n + 1, Len(slwire)),
                IF o.ups = <<>> THEN slgh
                ELSE [slgh EXCEPT !.due = SubSeq(@, Len(o.ups) + 1, Len(@)),
                                  !.lead = <<>>])

NextStream ==
  \/ slwire = <<>> /\ (DevOpen \/ DevClose \/ LineByte)
  \/ StreamBegin \/ StreamFeed

SpecStream == InitSlipOnly /\ [][NextStream]_vars

(***************************************************************************)
(* SpecOpen: the application opens and closes a stack again and again: an  *)
(* iso15765 or a slip instance on a serial or a tcp communicator, or the   *)
(* communicator alone.  The layer the application calls has a device on    *)
(* top or nothing.  Any step of the communicator's open() may fail.  Right *)
(* after a successful open the application sends or the line carries a     *)
(* byte.                                                                   *)
(***************************************************************************)
InitOpen ==
  /\ wire = [i \in Inst |-> <<>>] /\ ack = [i \in Inst |-> 0]
  /\ up = [i \in Inst |-> <<>>]   /\ gh = [i \in Inst |-> Observer]
  /\ inputs = 0 /\ last = NoLast
  /\ slwire = <<>> /\ slgh = [pkt |-> <<>>, whole |-> FALSE, due |-> <<>>, lead |-> <<>>,
            raw |-> <<>>, stale |-> FALSE, fr |-> 0]
  /\ mem = msg_pool /\ ntp = sntp
  /\ stack \in {"iso15765", "slip"}
  /\ \E u \in BOOLEAN, top \in BOOLEAN, kind \in {"serial", "tcp"}, server \in BOOLEAN :
       /\ top => stack = "iso15765"
       /\ kind = "serial" => ~server
       /\ com = [kind |-> kind, top |-> top, calls |-> <<>>, prev |-> "none",
                 s |-> [IF kind = "serial" THEN serial ELSE tcp(server)
                          EXCEPT !.upper = top => u]]
       /\ sl = [slip EXCEPT !.upper = top \/ u]
       /\ tp = [i \in Inst |-> [iso15765(50, 3, 4095, FALSE, 241, 242, FALSE)
                                  EXCEPT !.upper = top \/ u]]

\* the application called op of the layer on top: p is what the protocol did,
\* c what the communicator does when it is called
Called(op, p, c) ==
  LET down == com.top \/ p.calls # <<>>
      iso  == ~com.top /\ stack = "iso15765"
  IN  /\ tp'   = IF iso THEN [tp EXCEPT ![1] = p.s] ELSE tp
      /\ gh'   = IF iso THEN [gh EXCEPT ![1] = Observe(@, op, tp[1], p, FALSE, <<>>)]
                 ELSE gh
      /\ sl'   = IF ~com.top /\ stack = "slip" THEN p.s ELSE sl
      /\ com'  = [com EXCEPT !.s = IF down THEN c.s ELSE @,
                             !.calls = IF com.top THEN <<>> ELSE p.calls,
                             !.prev = last.op]
      /\ last' = [NoLast EXCEPT !.op = op,
                                !.ret = IF com.top THEN c.ret ELSE p.ret,
                                !.inds = IF down THEN c.inds ELSE <<>>]
      /\ UNCHANGED <<wire, ack, up, inputs, stack, slwire, slgh, mem, ntp>>

\* application: open(address) of the layer on top
StackOpen(fail) ==
  LET c == IF com.kind = "serial" THEN serial_open(com.s, fail)
           ELSE tcp_open(com.s, fail)
  IN  Called("open", IF stack = "slip" THEN slip_open(sl, c.ret)
                     ELSE open(tp[1], c.ret), c)

\* application: close() of the layer on top
StackClose ==
  Called("close", IF stack = "slip" THEN slip_close(sl) ELSE close(tp[1]),
         IF com.kind = "serial" THEN serial_close(com.s) ELSE tcp_close(com.s))

NextOpen ==
  \/ \E fail \in {"none", "address", "CreateFile", "set_param", "SetCommTimeouts",
                  "_beginthreadex", "resolve_address", "WSASocket", "bind",
                  "listen", "setsockopt", "connect", "CreateIoCompletionPort"} :
       StackOpen(fail)
  \/ StackClose
  \/ /\ last.op = "open" /\ last.ret /\ ~com.top /\ More
     /\ \/ \E data \in {<<1, 5, 9>>, Pattern(MaxLen, 1, 1)} : Send(1, data, TRUE)
        \/ DevSendMore
        \/ LineByte

SpecOpen == InitOpen /\ [][NextOpen]_vars

(***************************************************************************)
(* SpecCom: a serial or a tcp communicator alone.  The application opens   *)
(* it, sends and closes it while the worker threads of the communicator    *)
(* run: the data threads and the accept thread of tcp, the worker thread   *)
(* of serial.  A write may fail at once or later, a peer may connect and   *)
(* disconnect at any time.                                                 *)
(***************************************************************************)
\* one step of a thread of the communicator ran with the outcome o
ComRan(op, o) ==
  /\ com.top
  /\ com.kind = "tcp" => ~com.s.undefined
  /\ com'  = [com EXCEPT !.s = o.s,
                         !.calls = IF com.kind = "tcp" THEN o.calls ELSE <<>>,
                         !.prev = last.op]
  /\ last' = [NoLast EXCEPT !.op = op, !.ret = o.ret, !.inds = o.inds]
  /\ UNCHANGED <<isoVars, inputs, stack, slipVars, mem, ntp>>

\* the application is in no other call while it is in send()
NextCom ==
  \/ /\ com.kind = "tcp" => com.s.it = "none"
     /\ ComRan("open", IF com.kind = "serial" THEN serial_open(com.s, "none")
                       ELSE tcp_open(com.s, "none"))
  \/ /\ com.kind = "tcp" => com.s.it = "none"
     /\ ComRan("close", IF com.kind = "serial" THEN serial_close(com.s)
                        ELSE tcp_close(com.s))
  \/ \E fail \in {"none", "short", "error"} :
       /\ com.kind = "serial"
       /\ ComRan("send", serial_send(com.s, fail))
  \/ \E ok \in BOOLEAN :
       /\ com.kind = "serial" /\ com.s.thread_handle /\ (com.s.ov \/ com.s.acked)
       /\ ComRan("worker_thread", worker_thread(com.s, ok))
  \/ \E id \in {"eid_a", "eid_b"}, fail \in BOOLEAN :
       /\ com.kind = "tcp"
       /\ LET o == tcp_send(com.s, id, fail)
          IN  ComRan(IF o.s.it = "none" THEN "send" ELSE "find", o)
  \/ \E id \in {"eid_a", "eid_b"} :
       /\ com.kind = "tcp" /\ com.s.accept_thread_ /\ id \notin com.s.client_contexts_
       /\ ComRan("accept_thread", accept_thread(com.s, id))
  \/ \E id \in {"eid_any", "eid_a", "eid_b"}, ev \in {"closed", "sent", "rest", "rest_failed"} :
       /\ com.kind = "tcp" /\ id \in com.s.client_contexts_
       /\ ev # "closed" => id \in com.s.ov
       /\ ComRan("data_thread", data_thread(com.s, id, ev))

SpecCom == InitOpen /\ [][NextCom]_vars

(***************************************************************************)
(* SpecMsg: the application works on MaxMsgs messages of an idle stack,    *)
(* with any of the operations in any order; pop is called on a message     *)
(* that is not empty.                                                      *)
(***************************************************************************)
NextMsg ==
  \E op \in {"push_back", "push_front", "pop_back", "pop_front", "clear", "ref_copy",
              "clear_used_pages_max"},
     id \in Msgs, other \in Msgs, v \in 1..2 :
    /\ inputs < MaxOps
    /\ op \in {"pop_back", "pop_front"} => mem.m[id].pages # <<>>
    /\ op = "ref_copy" => other # id
    /\ (op # "ref_copy" => other = id) /\ (op \notin {"push_back", "push_front"} => v = 1)
    /\ mem'    = MsgOp(mem, op, id, other, v).pm
    /\ last'   = [NoLast EXCEPT !.op = op, !.i = id,
                                !.ret = MsgOp(mem, op, id, other, v).ret]
    /\ inputs' = inputs + 1
    /\ UNCHANGED <<isoVars, stack, slipVars, com, ntp>>

SpecMsg == InitSlipOnly /\ [][NextMsg]_vars

(***************************************************************************)
(* SpecNtp: one sntp device.  The application calls get_time MaxCalls      *)
(* times, one call after the other; the lower layer takes or rejects the   *)
(* first request of a call; the server answers MaxResponses times, at any  *)
(* time after the first request, with a valid response of 48 or 68 bytes,  *)
(* one of a wrong size, one of a client, or one with a timestamp of zero;  *)
(* the timer expires at any time while it runs.  A thread that can execute *)
(* its next statement does so in the end, and a running timer expires.     *)
(***************************************************************************)
NextNtp ==
  LET s == ntp
      Sends(o) == \E t \in {"app", "timer", "com"} : s.pc[t] = "send" /\ o.pc[t] # "send"
      Step(op, o, taken) ==
        /\ ntp' = [o EXCEPT !.sent  = IF Sends(o) THEN @ + 1 ELSE @,
                            !.out   = IF Sends(o) /\ taken THEN @ + 1 ELSE @,
                            !.asked = @ \/ (Sends(o) /\ taken)]
        /\ last' = [NoLast EXCEPT !.op = op]
        /\ UNCHANGED <<isoVars, inputs, stack, slipVars, com, mem>>
  IN  \/ /\ s.pc["app"] = "idle" /\ s.calls < MaxCalls
         /\ Step("get_time", [get_time(s, TRUE) EXCEPT !.calls = @ + 1, !.sent = 0,
                                                       !.out = 0, !.got = FALSE], TRUE)
      \/ \E ok \in BOOLEAN :
           /\ s.pc["app"] \in {"start", "reset", "send"}
           /\ s.pc["app"] # "send" => ok
           /\ Step("request", get_time(s, ok), ok)
      \/ /\ s.pc["app"] = "wait" /\ s.rx_ev
         /\ Step("return", get_time(s, TRUE), TRUE)
      \/ /\ s.timer /\ s.pc["timer"] = "idle"
         /\ Step("expire", [s EXCEPT !.timer = FALSE, !.pc["timer"] = "timeout"], TRUE)
      \/ \E t \in {"timer", "com"} :
           /\ s.pc[t] # "idle"
           /\ Step("timeout", timeout(s, t), TRUE)
      \/ \E size \in {47, 48, 68}, mode \in {35, 36}, stamps \in BOOLEAN :
           /\ s.pc["com"] = "idle" /\ s.asked /\ s.resps < MaxResponses
           /\ size # 48 => (mode = 36 /\ stamps)
           /\ LET data == [size |-> size, mode |-> mode, stamps |-> stamps]
                  o    == sntp_receive(s, data)
              IN  Step("response",
                       [o EXCEPT !.resps = @ + 1,
                                 !.out = IF @ > 0 THEN @ - 1 ELSE @,
                                 !.got = @ \/ ( /\ s.out > 0 /\ s.pc["app"] # "idle"
                                                /\ o.pc["com"] = "idle" )], TRUE)

SpecNtp ==
  /\ InitSlipOnly /\ [][NextNtp]_vars
  /\ \A t \in {"app", "timer", "com"} :
       WF_vars(NextNtp /\ ntp'.pc[t] # ntp.pc[t] /\ ntp'.calls = ntp.calls
                      /\ ntp'.resps = ntp.resps)


(***************************************************************************)
(* SpecLayers: either protocol, the iso15765 stack of Spec or the slip     *)
(* stack of SpecSlip.                                                      *)
(***************************************************************************)
SpecLayers == (Init \/ InitSlipOnly) /\ [][Next \/ NextSlip]_vars

(***************************************************************************)
(* C1  Round trip on loopback: once instance 1 has accepted a message p of *)
(* 1..4095 bytes and both stacks have come to rest, instance 2 has         *)
(* delivered exactly p, exactly once, and nothing else was delivered;      *)
(* both instances have no transfer in progress (CF_DL_ = 0); before that,  *)
(* nothing but p is ever delivered.                                        *)
(***************************************************************************)
C1_RoundTrip ==
  /\ up[1] = <<>>
  /\ up[2] \in {<<>>, <<LoopMsg>>}
  /\ LoopOver => /\ up[2] = <<LoopMsg>>
                 /\ \A i \in Inst : tp[i].CF_DL = 0 /\ ~tp[i].undefined

\* C1 witness: a message of 1000 bytes, the one of looptest, was delivered
C1_Witness ==
  /\ LoopOver /\ gh[1].len = 1000 /\ tp[1].CF_BS = 3
  /\ up[2] = <<LoopMsg>>

C3_Count(n) == (n - 6 + 6) \div 7

C3_ConsecutiveFrames ==
  [][ \A i \in Inst :
        ( /\ last'.op = "send_CF" /\ last'.i = i /\ last'.lower
          /\ gh[i].clean /\ tp[i].CF_DL # 0
          /\ ~tp[i].use_ext_adr /\ ~tp[i].use_zero_padding )
        => LET p == Pattern(gh[i].len, 0, 1)
               k == gh'[i].ncf
           IN  /\ last'.offered =
                     << <<32 + (k % 16)>>
                        \o SubSeq(p, 6 + 7 * (k - 1) + 1, Min(Len(p), 6 + 7 * k)) >>
               /\ k <= C3_Count(Len(p))
               /\ (tp'[i].CF_DL = 0) <=> (k = C3_Count(Len(p)))
               /\ tp'[i].CF_DL = 0 => ~tp'[i].timer_TX_CF /\ ~tp'[i].timer_TX_FC ]_vars

\* C3 witness: Consecutive Frame number 16 went down with sequence number 0
C3_Witness ==
  /\ last.op = "send_CF" /\ last.lower /\ gh[1].clean /\ gh[1].ncf = 16
  /\ ~tp[1].use_ext_adr /\ ~tp[1].use_zero_padding
  /\ last.offered[1][1] = 32

RECURSIVE C5_Stuff(_)
C5_Stuff(p) ==
  IF p = <<>> THEN <<>>
  ELSE (IF Head(p) = END THEN <<ESC, ESC_END>>
        ELSE IF Head(p) = ESC THEN <<ESC, ESC_ESC>> ELSE <<Head(p)>>)
       \o C5_Stuff(Tail(p))

C5_Encoder ==
  [][ \A p \in SlipPackets, lower \in BOOLEAN :
        (SlipSend(p, FALSE, lower) /\ sl.is_open /\ sl.tx_msg = <<>>)
          => LET f == last'.offered[1]
             IN  /\ last'.offered = << <<END>> \o C5_Stuff(p) \o <<END>> >>
                 /\ \A k \in 1..Len(f) : f[k] = END <=> k \in {1, Len(f)}
                 /\ p = <<END, ESC, 0>> => f = <<192, 219, 220, 219, 221, 0, 192>>
                 /\ last'.ret = lower
                 /\ sl'.tx_msg = <<>> ]_vars

\* C5 witness: the frame of [0xC0, 0xDB, 0x00] was passed to the lower layer
C5_Witness ==
  /\ last.op = "slip_send" /\ last.ret /\ sl.tx_msg = <<>>
  /\ last.offered = << <<192, 219, 220, 219, 221, 0, 192>> >>

(***************************************************************************)
(* C6  One transfer at a time: while a transfer is in progress             *)
(* (CF_DL_ != 0), or when the message is larger than 4095 bytes, send      *)
(* returns false, passes no frame to the lower layer and leaves every      *)
(* member of the layer, the transfer state and the timers, unchanged.      *)
(***************************************************************************)
C6_OneTransfer ==
  [][ \A i \in Inst :
        ( /\ last'.op = "send" /\ last'.i = i
          /\ \/ tp[i].CF_DL # 0
             \/ \E data \in Payloads, lower \in BOOLEAN :
                  Len(data) > 4095 /\ Send(i, data, lower) )
        => /\ ~last'.ret
           /\ last'.offered = <<>> /\ last'.ups = <<>> /\ last'.inds = <<>>
           /\ tp'[i] = tp[i] ]_vars

\* C6 witness: a send was rejected while the layer waited for the Flow Control
\* frame of a running transfer
C6_Witness ==
  /\ last.op = "send" /\ ~last.ret /\ last.busy /\ last.offered = <<>>
  /\ tp[1].CF_DL # 0 /\ tp[1].timer_TX_FC /\ gh[1].idle

(***************************************************************************)
(* C7  A send is never queued.  As claimed: whenever send of iso15765 or   *)
(* of slip returns true, the complete message was passed to the lower      *)
(* layer before the call returned and the layer holds no part of it.       *)
(***************************************************************************)
C7_NeverQueued ==
  [][ /\ (last'.op = "send" /\ last'.ret)
          => /\ Len(last'.offered) = 1
             /\ tp'[last'.i].CF_DL = 0 /\ tp'[last'.i].CF_frame = <<>>
      /\ (last'.op = "slip_send" /\ last'.ret)
          => /\ Len(last'.offered) = 1
             /\ sl'.tx_msg = <<>> ]_vars

\* C7 as amended: whenever send returns true, what the call passes to the lower
\* layer was passed before it returned.  iso15765: a message that fits a Single
\* Frame went down complete and the layer holds nothing of it; of a longer one
\* the First Frame went down, the layer holds the message in CF_frame_ with the
\* transfer in progress (CF_DL_ != 0) and the N_Bs timer running.  slip: with
\* more = false the frame of the pending fragments and the packet went down and
\* the transmit buffer is empty; with more = true nothing went down and the
\* transmit buffer holds the stuffed packet behind what it held.
C7_Dispatched ==
  [][ /\ (last'.op = "send" /\ last'.ret) =>
         \A i \in Inst, data \in Payloads :
           (last'.i = i /\ Send(i, data, TRUE))
           => IF Len(data) <= (IF tp[i].use_ext_adr THEN 6 ELSE 7)
              THEN /\ Len(last'.offered) = 1
                   /\ SubSeq(last'.offered[1],
                             IF tp[i].use_ext_adr THEN 3 ELSE 2,
                             Len(data) + (IF tp[i].use_ext_adr THEN 2 ELSE 1)) = data
                   /\ tp'[i] = tp[i]
              ELSE /\ Len(last'.offered) = 1
                   /\ tp'[i].CF_frame = data
                   /\ tp'[i].CF_DL = (IF tp[i].use_ext_adr THEN 5 ELSE 6)
                   /\ tp'[i].timer_TX_FC
      /\ (last'.op = "slip_send" /\ last'.ret) =>
         \A p \in SlipPackets, more \in BOOLEAN :
           SlipSend(p, more, TRUE)
           => LET tx == (IF sl.tx_msg = <<>> THEN <<END>> ELSE sl.tx_msg) \o C5_Stuff(p)
              IN  IF more
                  THEN last'.offered = <<>> /\ sl'.tx_msg = tx
                  ELSE last'.offered = <<tx \o <<END>>>> /\ sl'.tx_msg = <<>> ]_vars

\* C7 witness: send returned true for the message [1..8], which the layer holds
C7_Witness ==
  /\ stack = "iso15765" /\ last.op = "send" /\ last.ret
  /\ tp[1].CF_frame = <<1, 2, 3, 4, 5, 6, 7, 8>> /\ tp[1].CF_DL # 0

(***************************************************************************)
(* C8  A rejected send leaves the input untouched: whenever send of        *)
(* iso15765 returns false, the caller's message has the size and the bytes *)
(* it had before the call, and the transfer state of the layer is what it  *)
(* was before the call.                                                    *)
(***************************************************************************)
C8_RejectedUntouched ==
  [][ \A i \in Inst :
        (last'.op = "send" /\ last'.i = i /\ ~last'.ret)
        => /\ last'.intact
           /\ tp'[i].CF_frame = tp[i].CF_frame /\ tp'[i].CF_SN = tp[i].CF_SN
           /\ tp'[i].CF_DL = tp[i].CF_DL /\ tp'[i].CF_size = tp[i].CF_size
           /\ tp'[i].CF_BScnt = tp[i].CF_BScnt ]_vars

(***************************************************************************)
(* C9  Wrong sequence number: when a transfer is in progress and a         *)
(* Consecutive Frame arrives whose SN nibble is not the expected one, the  *)
(* layer raises rx_error once, delivers nothing, sends nothing, drops the  *)
(* partial message (CF_DL_ = 0, CF_frame_ empty) and leaves the N_Cr timer *)
(* stopped; a Consecutive Frame that arrives while no transfer is in       *)
(* progress raises rx_error, delivers nothing and starts nothing.          *)
(***************************************************************************)
C9_WrongSN ==
  [][ \A i \in Inst :
        ( /\ last'.op = "receive" /\ last'.i = i /\ last'.npci = 32
          /\ \/ ~last'.busy
             \/ \E frame \in Frames(tp[i]), lower \in BOOLEAN :
                  /\ Receive(i, frame, lower)
                  /\ Accepted(tp[i], frame)
                  /\ Body(tp[i], frame)[1] % 16 # tp[i].CF_SN )
        => /\ last'.inds = <<"rx_error">>
           /\ last'.ups = <<>> /\ last'.offered = <<>>
           /\ tp'[i].CF_DL = 0
           /\ last'.busy => tp'[i].CF_frame = <<>>
           /\ ~tp'[i].timer_RX_CF ]_vars

\* C9 witness: a Consecutive Frame with a wrong sequence number has ended a
\* reception
C9_Witness ==
  /\ last.op = "receive" /\ last.npci = 32 /\ last.busy
  /\ last.inds = <<"rx_error">>
  /\ tp[1].CF_DL = 0 /\ tp[1].CF_frame = <<>> /\ tp[1].CF_size = 0

(***************************************************************************)
(* C10  Timer expiry aborts the transfer: when the N_Bs timer (no Flow     *)
(* Control frame after a First Frame or a block) or the N_Cr timer (no     *)
(* Consecutive Frame during a reception) expires, the layer clears its     *)
(* transfer state (CF_DL_ = 0, CF_frame_ empty), raises rx_timeout once    *)
(* and nothing else, the timer is stopped, and a new send is accepted.     *)
(***************************************************************************)
C10_TimerExpiry ==
  [][ \A i \in Inst :
        (last'.op \in {"timer_TX_FC", "timer_RX_CF"} /\ last'.i = i)
        => /\ tp'[i].CF_DL = 0 /\ tp'[i].CF_frame = <<>>
           /\ last'.inds = <<"rx_timeout">>
           /\ last'.ups = <<>> /\ last'.offered = <<>>
           /\ last'.op = "timer_TX_FC" => ~tp'[i].timer_TX_FC
           /\ last'.op = "timer_RX_CF" => ~tp'[i].timer_RX_CF
           /\ \A data \in Payloads :
                Len(data) <= 4095 => send(tp'[i], data, TRUE).ret ]_vars

\* C10 witness: the N_Bs timer expired on a transfer that waited for its first
\* Flow Control frame
C10_Witness ==
  /\ last.op = "timer_TX_FC" /\ last.busy /\ last.inds = <<"rx_timeout">>
  /\ gh[1].idle /\ ~gh[1].fc /\ tp[1].CF_DL = 0 /\ tp[1].CF_size > 7

(***************************************************************************)
(* C11  Flow Control count.  As claimed: a receiver with BS = 3 that has   *)
(* received a message of 1000 bytes (a First Frame and 142 Consecutive     *)
(* Frames, normal addressing) has passed exactly 48 Flow Control frames to *)
(* the lower layer after the one that answered the First Frame.            *)
(***************************************************************************)
C11_FlowControl48 ==
  ( /\ LoopOver /\ up[2] = <<LoopMsg>>
    /\ gh[1].len = 1000 /\ tp[2].CF_BS = 3 /\ ~tp[2].use_ext_adr )
  => gh[2].nfc = 48

\* the Consecutive Frames of a message of n bytes
C11_Frames(s, n) == (n - FFMax(s) + CFMax(s) - 1) \div CFMax(s)

\* C11 as amended: a receiver with BS = 3 passes a Flow Control frame down after
\* every third Consecutive Frame that does not complete the message, so for a
\* message of c Consecutive Frames (c - 1) div 3 of them after the initial one:
\* 47 for the 1000 bytes of 142 Consecutive Frames.
C11_FlowControlCount ==
  ( /\ LoopOver /\ up[2] = <<LoopMsg>>
    /\ gh[1].len > SFrameMax(tp[1]) /\ tp[2].CF_BS = 3 )
  => /\ gh[2].nfc = (C11_Frames(tp[2], gh[1].len) - 1) \div 3
     /\ (gh[1].len = 1000 /\ ~tp[2].use_ext_adr) => gh[2].nfc = 47

\* C11 witness: the 1000 bytes were delivered after 47 Flow Control frames
C11_Witness ==
  /\ LoopOver /\ up[2] = <<LoopMsg>>
  /\ gh[1].len = 1000 /\ tp[2].CF_BS = 3 /\ ~tp[2].use_ext_adr
  /\ gh[2].nfc = 47

(***************************************************************************)
(* C12  Extended addressing filter.  With extended addressing, a received  *)
(* frame whose first byte differs from ext_source_adr changes no member    *)
(* and no timer, raises no indication and passes nothing up or down.  A    *)
(* frame whose first byte matches is handled as a layer with normal        *)
(* addressing in the same state handles the frame without that byte, with  *)
(* the capacities 6 (Single Frame) and 5 (First Frame): a Single Frame of  *)
(* 7 bytes is an error, a First Frame is accepted from 7 bytes on and      *)
(* brings 5 bytes, and a Flow Control frame sent in answer starts with     *)
(* ext_target_adr.                                                         *)
(***************************************************************************)
C12_ExtendedFilter ==
  [][ \A i \in Inst :
        (last'.op = "receive" /\ last'.i = i /\ tp[i].use_ext_adr) =>
        \A frame \in Frames(tp[i]), lower \in BOOLEAN :
          Receive(i, frame, lower) =>
          IF frame[1] # tp[i].ext_source_adr
          THEN /\ tp'[i] = tp[i]
               /\ last'.inds = <<>> /\ last'.ups = <<>> /\ last'.offered = <<>>
          ELSE LET b  == Tail(frame)
                   n  == receive([tp[i] EXCEPT !.use_ext_adr = FALSE], b)
                   DL == b[2] + 256 * (b[1] % 16)
               IN  CASE b[1] \div 16 = 0 /\ b[1] % 16 = 7 ->
                          /\ last'.inds = <<"rx_error">> /\ last'.ups = <<>>
                          /\ last'.offered = <<>> /\ tp'[i].CF_DL = 0
                     [] b[1] \div 16 = 1 /\ (DL < 7 \/ DL > tp[i].CF_MAX_DL) ->
                          /\ last'.inds = <<"rx_error">> /\ last'.ups = <<>>
                          /\ last'.offered = <<>>
                          /\ tp'[i].CF_DL = 0 /\ tp'[i].CF_frame = <<>>
                     [] b[1] \div 16 = 1 /\ DL >= 7 /\ DL <= tp[i].CF_MAX_DL ->
                          /\ last'.inds = <<>> /\ last'.ups = <<>>
                          /\ tp'[i].CF_DL = DL /\ tp'[i].CF_SN = 1
                          /\ tp'[i].CF_frame = SubSeq(b, 3, 7)
                          /\ tp'[i].timer_RX_CF
                          /\ Len(last'.offered) = 1
                          /\ SubSeq(last'.offered[1], 1, 4)
                               = <<tp[i].ext_target_adr, 48, tp[i].CF_BS, tp[i].CF_STmin>>
                     [] OTHER ->
                          /\ tp'[i] = [n.s EXCEPT !.use_ext_adr = TRUE]
                          /\ last'.inds = n.inds /\ last'.ups = n.ups
                          /\ Len(last'.offered) = Len(n.offered)
                          /\ \A k \in 1..Len(n.offered) :
                               /\ last'.offered[k][1] = tp[i].ext_target_adr
                               /\ Tail(last'.offered[k])
                                    = SubSeq(n.offered[k], 1, Len(last'.offered[k]) - 1) ]_vars

\* C12 witness: a Consecutive Frame of another node arrived during a reception,
\* which goes on
C12_Witness ==
  /\ last.op = "receive" /\ tp[1].use_ext_adr /\ last.npci = -1
  /\ last.inds = <<>> /\ tp[1].CF_DL # 0 /\ tp[1].timer_RX_CF

(***************************************************************************)
(* C13  Frame length invariant: every frame iso15765 passes to the lower   *)
(* layer is at most 8 bytes long; with zero padding it is exactly 8 bytes  *)
(* long with zero bytes after the protocol content; with extended          *)
(* addressing its first byte is ext_target_adr.  Every frame is built from *)
(* the members of the layer: no call reads behind the buffer CF_frame_.    *)
(***************************************************************************)
\* the frames the handler of instance i has just offered are well-formed
C13_Frames(i) ==
  \A k \in 1..Len(last'.offered) :
    LET f == last'.offered[k]
        a == IF tp[i].use_ext_adr THEN 1 ELSE 0
        \* the bytes of protocol content, where the frame tells
        n == CASE last'.op = "send" /\ HiNibble(f[a + 1]) = NPCI_SINGLE_FRAME
                    -> a + 1 + LoNibble(f[a + 1])
               [] last'.op = "receive" -> a + FC_DATALENGTH
               [] last'.op = "send_CF" /\ gh[i].clean
                    -> a + 1 + Min(CFMax(tp[i]), Len(tp[i].CF_frame) - tp[i].CF_DL)
               [] OTHER -> FRAME_LENGTH
    IN  /\ Len(f) >= 1 /\ Len(f) <= FRAME_LENGTH
        /\ tp[i].use_zero_padding
             => /\ Len(f) = FRAME_LENGTH
                /\ \A j \in (n + 1)..FRAME_LENGTH : f[j] = 0
        /\ tp[i].use_ext_adr => f[1] = tp[i].ext_target_adr
        /\ last'.op \in {"send", "receive", "send_CF"}

C13_FrameLengthDefined ==
  [][ \A i \in Inst : last'.i = i => C13_Frames(i) ]_vars

(***************************************************************************)
(* C14  Padding is ignored on reception.  On loopback with zero padding    *)
(* every frame of the peer is 8 bytes long.  For a message of every        *)
(* length, with normal and with extended addressing: no Single Frame and   *)
(* no Consecutive Frame raises rx_overrun, what the receiver delivers is   *)
(* the message, of exactly the declared length, and the Single Frame and   *)
(* the last Consecutive Frame deliver it.                                  *)
(***************************************************************************)
C14_PaddingIgnored ==
  [][ ( /\ last'.op = "receive" /\ last'.i = 2 /\ tp[2].use_zero_padding
        /\ last'.npci \in {NPCI_SINGLE_FRAME, NPCI_CONSECUTIVE_FRAME} )
      => /\ \A k \in 1..Len(last'.inds) : last'.inds[k] # "rx_overrun"
         /\ \A k \in 1..Len(last'.ups) : last'.ups[k] = LoopMsg
         /\ ( \/ last'.npci = NPCI_SINGLE_FRAME
              \/ gh[1].ncf = C11_Frames(tp[2], gh[1].len) )
            => last'.ups = <<LoopMsg>> ]_vars

(***************************************************************************)
(* C15  SLIP decoder resync.  An open decoder that started in IDLE has     *)
(* received any bytes g: it is in IDLE with an empty buffer, or inside a   *)
(* frame.  Feeding it the frame [END] ++ stuff(p) ++ [END] of a non-empty  *)
(* packet p delivers p upward.                                             *)
(***************************************************************************)
C15_Resync ==
  [][ ( /\ last'.op = "slip_deliver" /\ sl.is_open
        /\ slgh.whole /\ slgh.pkt # <<>>
        /\ slwire = <<END>> \o C5_Stuff(slgh.pkt) \o <<END>>
        /\ sl.rx_state = RCV_IDLE => sl.rx_msg = <<>> )
      => /\ last'.ups # <<>>
         /\ last'.ups[Len(last'.ups)] = slgh.pkt ]_vars

C17_CloseStopsTimers ==
  [][ \A i \in Inst :
        (last.op = "close" /\ last.i = i) =>
          /\ ~tp[i].timer_TX_CF /\ ~tp[i].timer_TX_FC /\ ~tp[i].timer_RX_CF
          /\ (last'.i = i /\ last'.op \notin External \cup {"indication"})
             => /\ last'.offered = <<>>
                /\ \A k \in 1..Len(last'.inds) :
                     last'.inds[k] \notin {"rx_timeout", "tx_timeout"}
                /\ ~tp'[i].timer_TX_CF /\ ~tp'[i].timer_TX_FC
                /\ ~tp'[i].timer_RX_CF ]_vars


(***************************************************************************)
(* C18  close is idempotent.  A close() called directly after a close(),   *)
(* or as the first call on a stack that was never opened, changes no       *)
(* member of the protocol or of the serial or tcp communicator below it    *)
(* and raises no indication, no second disconnected in particular.         *)
(***************************************************************************)
C18_CloseIdempotent ==
  [][ (last'.op = "close" /\ last.op \in {"none", "close"})
        => /\ tp' = tp /\ sl' = sl /\ com'.s = com.s
           /\ last'.inds = <<>> ]_vars

\* a serial port that was closed by a call of close() that raised no indication
\* directly after another close()
C18_Witness ==
  /\ last.op = "close" /\ com.prev = "close" /\ last.inds = <<>>
  /\ com.kind = "serial" /\ ~com.s.com_handle

(***************************************************************************)
(* C19  The dangling-stack gate.  open() of an iso15765, slip, serial or   *)
(* tcp layer whose upper link is not set returns false, calls nothing of   *)
(* the layer below, leaves every handle, socket and context as it was and  *)
(* raises no indication.                                                   *)
(***************************************************************************)
C19_DanglingGate ==
  [][ ( /\ last'.op = "open"
        /\ ~(IF com.top THEN com.s.upper
             ELSE IF stack = "slip" THEN sl.upper ELSE tp[1].upper) )
        => /\ ~last'.ret
           /\ com'.calls = <<>> /\ com'.s = com.s
           /\ tp' = tp /\ sl' = sl
           /\ last'.inds = <<>> ]_vars

\* open() was called on an iso15765 instance without a device on top
C19_Witness ==
  /\ last.op = "open" /\ ~last.ret
  /\ ~com.top /\ stack = "iso15765" /\ ~tp[1].upper

(***************************************************************************)
(* C20  A failed open leaves the layer closed.  When open() of a closed    *)
(* layer returns false, slip rejects every send and delivers nothing, and  *)
(* the tcp communicator has no socket and no registered client context, so *)
(* that a later open() whose steps all succeed returns true.               *)
(***************************************************************************)
C20_FailedOpenClosed ==
  [][ (last'.op = "open" /\ ~last'.ret)
        => /\ (~com.top /\ stack = "slip" /\ ~sl.is_open)
                => /\ \A packet \in SlipPackets :
                        ~slip_send(sl', packet, FALSE, TRUE).ret
                   /\ slip_receive(sl', <<END, 1, END>>).ups = <<>>
           /\ ( /\ com.kind = "tcp" /\ com.s.upper
                /\ ~com.s.socket_ /\ com.s.client_contexts_ = {} )
                => /\ ~com'.s.socket_ /\ com'.s.client_contexts_ = {}
                   /\ tcp_open(com'.s, "none").ret ]_vars

\* the part of C20 about slip: a failed open() of a closed slip instance leaves
\* it closed
C20_SlipFailedOpen ==
  [][ (last'.op = "open" /\ ~last'.ret /\ ~com.top /\ stack = "slip" /\ ~sl.is_open)
        => /\ sl' = [sl EXCEPT !.rx_state = RCV_IDLE]
           /\ \A packet \in SlipPackets : ~slip_send(sl', packet, FALSE, TRUE).ret
           /\ slip_receive(sl', <<END, 1, END>>).ups = <<>> ]_vars


(***************************************************************************)
(* C21  Terminal indications reset the transfer.  When the lower layer     *)
(* raises disconnected while a transfer is in progress (CF_DL_ is not 0),  *)
(* the instance forwards the indication and is left with CF_DL_ = 0, an    *)
(* empty CF_frame_ and no running timer, so that a send is accepted.       *)
(***************************************************************************)
C21_DisconnectResets ==
  [][ \A i \in Inst :
        ( /\ last'.op = "status" /\ last'.i = i
          /\ last'.inds = <<"disconnected">> /\ tp[i].CF_DL # 0 )
        => /\ tp'[i].CF_DL = 0 /\ tp'[i].CF_frame = <<>>
           /\ ~tp'[i].timer_TX_CF /\ ~tp'[i].timer_TX_FC /\ ~tp'[i].timer_RX_CF
           /\ send(tp'[i], <<1, 5, 9>>, TRUE).ret ]_vars

(***************************************************************************)
(* C27  Malformed frames.  A Single Frame with a DL above the capacity or  *)
(* with fewer bytes than DL (a), a First Frame with a DL below the         *)
(* smallest segmented message or above MAX_DL (b), a Consecutive Frame     *)
(* that arrives while no reception is in progress (c) and a frame with an  *)
(* unknown N_PCI (d) each raise rx_error once, deliver nothing, pass no    *)
(* frame down and start no timer; after (a) and (b) CF_DL_ is 0.  No       *)
(* reception is in progress when CF_DL_ is 0, or during a transmission     *)
(* that began on an idle layer and has met nothing but Flow Control.       *)
(***************************************************************************)
C27_Malformed ==
  [][ \A i \in Inst :
        (last'.op = "receive" /\ last'.i = i) =>
        \A frame \in Frames(tp[i]), lower \in BOOLEAN :
          (Receive(i, frame, lower) /\ Accepted(tp[i], frame)) =>
          LET b  == Body(tp[i], frame)
              DL == make_large(b[2], LoNibble(b[1]))
              a_ == /\ HiNibble(b[1]) = NPCI_SINGLE_FRAME
                    /\ (LoNibble(b[1]) > SFrameMax(tp[i]) \/ Len(b) - 1 < LoNibble(b[1]))
              b_ == /\ HiNibble(b[1]) = NPCI_FIRST_FRAME
                    /\ (DL < FFMax(tp[i]) + 2 \/ DL > tp[i].CF_MAX_DL)
              c_ == /\ HiNibble(b[1]) = NPCI_CONSECUTIVE_FRAME
                    /\ (tp[i].CF_DL = 0 \/ (gh[i].idle /\ gh[i].clean))
              d_ == HiNibble(b[1]) > NPCI_FLOW_CONTROL
          IN  /\ (a_ \/ b_ \/ c_ \/ d_)
                   => /\ last'.inds = <<"rx_error">>
                      /\ last'.ups = <<>> /\ last'.offered = <<>>
                      /\ tp'[i].timer_TX_CF => tp[i].timer_TX_CF
                      /\ tp'[i].timer_TX_FC => tp[i].timer_TX_FC
                      /\ tp'[i].timer_RX_CF => tp[i].timer_RX_CF
              /\ (a_ \/ b_) => tp'[i].CF_DL = 0 ]_vars

\* C27 for a layer that is neither sending nor receiving: every malformed frame
\* is answered with rx_error alone
C27_MalformedIdle ==
  [][ \A i \in Inst :
        (last'.op = "receive" /\ last'.i = i /\ tp[i].CF_DL = 0) =>
        \A frame \in Frames(tp[i]), lower \in BOOLEAN :
          (Receive(i, frame, lower) /\ Accepted(tp[i], frame)) =>
          LET b  == Body(tp[i], frame)
              DL == make_large(b[2], LoNibble(b[1]))
          IN  ( \/ /\ HiNibble(b[1]) = NPCI_SINGLE_FRAME
                   /\ (LoNibble(b[1]) > SFrameMax(tp[i]) \/ Len(b) - 1 < LoNibble(b[1]))
                \/ /\ HiNibble(b[1]) = NPCI_FIRST_FRAME
                   /\ (DL < FFMax(tp[i]) + 2 \/ DL > tp[i].CF_MAX_DL)
                \/ HiNibble(b[1]) = NPCI_CONSECUTIVE_FRAME
                \/ HiNibble(b[1]) > NPCI_FLOW_CONTROL )
              => /\ last'.inds = <<"rx_error">>
                 /\ last'.ups = <<>> /\ last'.offered = <<>>
                 /\ tp'[i].CF_DL = 0
                 /\ tp'[i].timer_TX_CF => tp[i].timer_TX_CF
                 /\ tp'[i].timer_TX_FC => tp[i].timer_TX_FC
                 /\ tp'[i].timer_RX_CF => tp[i].timer_RX_CF ]_vars

(***************************************************************************)
(* C28  A malformed Flow Control frame aborts the transmission.  When the  *)
(* sender waits for Flow Control (N_Bs is running) and the frame that      *)
(* arrives is shorter than 3 bytes or has a flow status other than CTS and *)
(* WAIT, CF_DL_ is 0 and CF_frame_ empty afterwards, rx_timeout is raised, *)
(* no Consecutive Frame is scheduled and a send is accepted.               *)
(***************************************************************************)
C28_MalformedFC ==
  [][ \A i \in Inst :
        (last'.op = "receive" /\ last'.i = i /\ tp[i].timer_TX_FC) =>
        \A frame \in Frames(tp[i]), lower \in BOOLEAN :
          ( /\ Receive(i, frame, lower) /\ IsFC(tp[i], frame)
            /\ \/ Len(Body(tp[i], frame)) < FC_DATALENGTH
               \/ LoNibble(Body(tp[i], frame)[1]) \notin {FC_CTS, FC_WAIT} )
          => /\ tp'[i].CF_DL = 0 /\ tp'[i].CF_frame = <<>>
             /\ last'.inds = <<"rx_timeout">>
             /\ ~tp'[i].timer_TX_CF
             /\ send(tp'[i], <<1, 5, 9>>, TRUE).ret ]_vars

(***************************************************************************)
(* C29  Flow Control WAIT.  When the sender waits for Flow Control (N_Bs   *)
(* is running) and a Flow Control frame with FS = WAIT arrives, no         *)
(* Consecutive Frame is scheduled and N_Bs runs again afterwards: a        *)
(* sender in a transfer is never left without a timer.                     *)
(***************************************************************************)
C29_FlowControlWait ==
  [][ \A i \in Inst :
        ( /\ last'.op = "receive" /\ last'.i = i
          /\ tp[i].timer_TX_FC /\ ~tp[i].timer_TX_CF )
        => \A frame \in Frames(tp[i]), lower \in BOOLEAN :
             ( /\ Receive(i, frame, lower) /\ IsFC(tp[i], frame)
               /\ Len(Body(tp[i], frame)) >= FC_DATALENGTH
               /\ LoNibble(Body(tp[i], frame)[1]) = FC_WAIT )
             => /\ ~tp'[i].timer_TX_CF
                /\ tp'[i].timer_TX_FC ]_vars

(***************************************************************************)
(* C30  Bounded wait for tx_done.  When send_CF has waited N_As for the    *)
(* tx_done latch in vain, the Consecutive Frame it holds is not passed     *)
(* down, CF_DL_ is 0 and CF_frame_ empty, no timer is started, tx_timeout  *)
(* is raised once and a send is accepted afterwards.                       *)
(***************************************************************************)
C30_BoundedWait ==
  [][ \A i \in Inst :
        (last'.op = "send_CF_timeout" /\ last'.i = i)
        => /\ tp[i].cf_wait /\ ~tp[i].tx_ev
           /\ last'.offered = <<>> /\ ~last'.ret
           /\ last'.inds = <<"tx_timeout">>
           /\ tp'[i].CF_DL = 0 /\ tp'[i].CF_frame = <<>>
           /\ tp'[i].timer_TX_CF = tp[i].timer_TX_CF
           /\ tp'[i].timer_TX_FC = tp[i].timer_TX_FC
           /\ tp'[i].timer_RX_CF = tp[i].timer_RX_CF
           /\ \A data \in Payloads :
                Len(data) <= CF_MAX_FRAME_SIZE => send(tp'[i], data, TRUE).ret ]_vars

\* send_CF gave up a transmission that had begun on an idle layer and had been
\* answered with Flow Control
C30_Witness ==
  /\ last.op = "send_CF_timeout" /\ last.inds = <<"tx_timeout">>
  /\ gh[1].txp # <<>> /\ gh[1].fc /\ gh[1].idle
  /\ tp[1].CF_DL = 0 /\ tp[1].CF_frame = <<>>


C25_SendAcknowledged ==
  [][ /\ com.top /\ com.kind = "serial" =>
           /\ (last'.op = "send" /\ last'.ret) => (~com.s.ov /\ com'.s.ov)
           /\ (last'.op = "send" /\ (com.s.ov \/ com.s.acked)) => ~last'.ret
           /\ (last'.op = "worker_thread" /\ com.s.ov /\ ~com'.s.ov) =>
                last'.inds \in {<<"tx_done">>, <<"tx_error">>}
           /\ (last'.op = "worker_thread" /\ com.s.acked /\ ~com'.s.acked) =>
                ~com'.s.tx_busy
      /\ com.top /\ com.kind = "tcp" =>
           /\ (last'.op = "send" /\ last'.ret) =>
                (com.s.it \notin com.s.ov /\ com.s.it \in com'.s.ov)
           /\ (last'.op = "send" /\ com.s.it \in com.s.ov) => ~last'.ret
           /\ \A id \in (com.s.ov \ com'.s.ov) \cap com'.s.client_contexts_ :
                /\ last'.op = "data_thread"
                /\ last'.inds \in {<<"tx_done">>, <<"tx_error">>}
                /\ id \notin com'.s.wsa_len ]_vars

\* C25: the serial communicator accepts a send as soon as the indication of
\* the last one has been raised
C25_SerialWindow ==
  [][ (com.top /\ com.kind = "serial" /\ last'.op = "worker_thread"
       /\ last'.inds \in {<<"tx_done">>, <<"tx_error">>}) => ~com'.s.tx_busy ]_vars

\* C26: every access to the client_contexts_ map of tcp is made between a lock
\* and an unlock of client_contexts_mutex_, and send never uses a context that
\* a data thread has deleted
C26_MapProtected ==
  (com.top /\ com.kind = "tcp") =>
    /\ com.calls \in {<<>>} \cup { <<"lock", a, "unlock">> : a \in {"insert", "erase", "find", "iterate"} }
    /\ ~com.s.undefined

\* C26: send never uses a context that a data thread has deleted
C26_NoDeletedContext == (com.top /\ com.kind = "tcp") => ~com.s.undefined


(***************************************************************************)
(* C31..C38: the sender of iso15765 and the slip layer.                    *)
(***************************************************************************)
\* C31: in a transmission that started on an idle layer and has run
\* undisturbed, after a Flow Control frame with CTS and a block size n other
\* than 0 the sender passes at most n Consecutive Frames to the lower layer
\* before it waits, with N_Bs running, for the next Flow Control frame; with a
\* block size of 0 a Consecutive Frame that is not the last one is followed by
\* the next one after STmin, and N_Bs is not started.
C31_BlockSize ==
  /\ [](\A i \in Inst :
          (~tp[i].undefined /\ gh[i].idle /\ gh[i].clean /\ gh[i].fc
           /\ tp[i].FC_BS # 0 /\ tp[i].FC_FS = 0)
            => gh[i].blk <= tp[i].FC_BS)
  /\ [][ (last'.op = "send_CF" /\ last'.lower /\ tp[last'.i].FC_BS = 0
          /\ gh[last'.i].idle /\ gh[last'.i].clean /\ gh[last'.i].fc
          /\ tp'[last'.i].CF_frame # <<>>)
           => (tp'[last'.i].timer_TX_CF /\ ~tp'[last'.i].timer_TX_FC) ]_vars

\* C31: with a block size of 0 no Consecutive Frame of an undisturbed
\* transmission waits for a Flow Control frame
C31_NoBlock ==
  [][ (last'.op = "send_CF" /\ last'.lower /\ tp[last'.i].FC_BS = 0
       /\ gh[last'.i].idle /\ gh[last'.i].clean /\ gh[last'.i].fc
       /\ tp'[last'.i].CF_frame # <<>>)
        => (tp'[last'.i].timer_TX_CF /\ ~tp'[last'.i].timer_TX_FC) ]_vars


\* C32: when the lower layer rejects a Consecutive Frame the sender keeps the
\* sequence number, the offset and the buffer, raises no indication and starts
\* STmin again; and in an undisturbed transmission send_CF, when it stands with
\* the same frame again, is not left waiting for a tx_done that no frame is
\* outstanding for: it can offer the frame, the sender does not give the
\* transfer up by itself.
C32_RetryRejected ==
  /\ [][ (last'.op = "send_CF" /\ ~last'.ret) =>
           /\ tp'[last'.i].CF_SN = tp[last'.i].CF_SN
           /\ tp'[last'.i].CF_DL = tp[last'.i].CF_DL
           /\ tp'[last'.i].CF_frame = tp[last'.i].CF_frame
           /\ last'.inds = <<>> /\ last'.ups = <<>>
           /\ tp'[last'.i].timer_TX_CF ]_vars
  /\ [](\A i \in Inst :
          (~tp[i].undefined /\ gh[i].idle /\ gh[i].clean /\ gh[i].rej /\ tp[i].cf_wait)
            => (tp[i].tx_ev \/ ack[i] > 0))

\* C32: a rejected Consecutive Frame leaves the transfer as it was and starts
\* STmin again
C32_RejectedKeeps ==
  [][ (last'.op = "send_CF" /\ ~last'.ret) =>
        /\ tp'[last'.i].CF_SN = tp[last'.i].CF_SN
        /\ tp'[last'.i].CF_DL = tp[last'.i].CF_DL
        /\ tp'[last'.i].CF_frame = tp[last'.i].CF_frame
        /\ last'.inds = <<>> /\ last'.ups = <<>>
        /\ tp'[last'.i].timer_TX_CF ]_vars


RECURSIVE C34_Unstuff(_)
C34_Unstuff(r) ==
  IF r = <<>> THEN <<>>
  ELSE IF Head(r) # ESC
  THEN LET rest == C34_Unstuff(Tail(r))
       IN  IF rest = <<-1>> THEN rest ELSE <<Head(r)>> \o rest
  ELSE IF Len(r) < 2 \/ r[2] \notin {ESC_END, ESC_ESC} THEN <<-1>>
  ELSE LET rest == C34_Unstuff(Tail(Tail(r)))
       IN  IF rest = <<-1>> THEN rest
           ELSE <<IF r[2] = ESC_END THEN END ELSE ESC>> \o rest

\* the runs of bytes between two END bytes that end in data, r being the bytes
\* received since the last END before data
RECURSIVE C34_Segments(_, _)
C34_Segments(r, data) ==
  IF data = <<>> THEN {}
  ELSE IF Head(data) = END THEN {r} \cup C34_Segments(<<>>, Tail(data))
  ELSE C34_Segments(r \o <<Head(data)>>, Tail(data))

\* receive(data) raised no indication, and every message it delivered is not
\* empty and is the unstuffed run of bytes between two END bytes
C34_Silent(data) ==
  /\ last'.inds = <<>>
  /\ \A k \in 1..Len(last'.ups) :
       /\ last'.ups[k] # <<>>
       /\ last'.ups[k] \in { C34_Unstuff(r) : r \in C34_Segments(slgh.raw, data) }

C35_SyncRegained ==
  [][ ( /\ last'.op = "slip_deliver" /\ sl.is_open
        /\ slgh.whole /\ slgh.pkt # <<>> /\ slgh.fr >= 1
        /\ slwire = <<END>> \o C5_Stuff(slgh.pkt) \o <<END>> )
      => last'.ups = <<slgh.pkt>> ]_vars


\* C36: a Single Frame or a First Frame received while a multi-frame
\* transmission is in progress leaves CF_DL_, CF_SN_, CF_size_ and CF_frame_
\* of the sender as they are; and a send during a reception is rejected and
\* leaves the reception as it is.
C36_NoDisturbance ==
  [][ /\ ( /\ last'.op = "receive"
           /\ last'.npci \in {NPCI_SINGLE_FRAME, NPCI_FIRST_FRAME}
           /\ gh[last'.i].idle /\ gh[last'.i].clean
           /\ tp[last'.i].CF_DL # 0 /\ tp[last'.i].CF_frame = gh[last'.i].txp )
         => /\ tp'[last'.i].CF_DL = tp[last'.i].CF_DL
            /\ tp'[last'.i].CF_SN = tp[last'.i].CF_SN
            /\ tp'[last'.i].CF_size = tp[last'.i].CF_size
            /\ tp'[last'.i].CF_frame = tp[last'.i].CF_frame
      /\ (last'.op = "send" /\ tp[last'.i].timer_RX_CF /\ tp[last'.i].CF_DL # 0)
         => (~last'.ret /\ last'.offered = <<>> /\ tp'[last'.i] = tp[last'.i]) ]_vars

\* C36: a send during a reception is rejected and leaves the reception as it is
C36_SendRejected ==
  [][ (last'.op = "send" /\ tp[last'.i].timer_RX_CF /\ tp[last'.i].CF_DL # 0)
        => (~last'.ret /\ last'.offered = <<>> /\ tp'[last'.i] = tp[last'.i]) ]_vars


\* C37: a Flow Control frame received by an instance that has no multi-frame
\* transmission in progress, idle or receiving, passes no frame to the lower
\* layer, starts no timer and leaves a reception in progress as it is.
C37_UnsolicitedFC ==
  [][ ( /\ last'.op = "receive" /\ last'.npci = NPCI_FLOW_CONTROL
        /\ ~tp[last'.i].timer_TX_CF /\ ~tp[last'.i].timer_TX_FC /\ ~tp[last'.i].cf_wait
        /\ \/ Idle(tp[last'.i])
           \/ tp[last'.i].timer_RX_CF /\ gh[last'.i].txp = <<>> )
      => /\ last'.offered = <<>>
         /\ ~tp'[last'.i].timer_TX_CF /\ ~tp'[last'.i].timer_TX_FC
         /\ tp'[last'.i].timer_RX_CF = tp[last'.i].timer_RX_CF
         /\ tp'[last'.i].CF_DL = tp[last'.i].CF_DL
         /\ tp'[last'.i].CF_SN = tp[last'.i].CF_SN
         /\ tp'[last'.i].CF_BScnt = tp[last'.i].CF_BScnt
         /\ tp'[last'.i].CF_frame = tp[last'.i].CF_frame ]_vars


\* C38: a Consecutive Frame is passed to the lower layer only after the tx_done
\* of the frame passed down before it.  In a transfer that started on an idle
\* layer and was not disturbed, the frames are acknowledged in the order they
\* were passed down, so at the moment a Consecutive Frame is offered to the
\* lower layer no indication of an accepted frame is outstanding.
C38_OwnTxDone ==
  [][ \A i \in Inst :
        ( /\ last'.op = "send_CF" /\ last'.i = i /\ last'.offered # <<>>
          /\ gh[i].idle /\ gh[i].clean /\ gh[i].fc )
        => ack[i] = 0 ]_vars


(***************************************************************************)
(* C39, C40: dev::sntp.                                                    *)
(***************************************************************************)
\* a thread that may still set rx_ev_ or start the timer is inside a handler
C39_Busy == ntp.pc["timer"] # "idle" \/ ntp.pc["com"] # "idle"

\* C39: while get_time waits, the response timer runs, or the event is set, or
\* a handler that will start the timer or set the event is still running
C39_NeverStuck ==
  ntp.pc["app"] = "wait" => (ntp.timer \/ ntp.rx_ev \/ C39_Busy)

\* C39: a call of get_time passes at most 1 + MAX_RETRIES requests down
C39_Requests == ntp.sent <= 1 + MAX_RETRIES

\* C39: every call of get_time returns
C39_Returns == (ntp.pc["app"] # "idle") ~> (ntp.pc["app"] = "idle")


\* C39: every call of get_time returns, it never waits with the timer stopped
\* and the event cleared, and it passes at most 1 + MAX_RETRIES requests down
C39_Terminates == []C39_NeverStuck /\ []C39_Requests /\ C39_Returns

\* C40: get_time waits, no handler runs, and the last thing that happened is
\* that a valid response to a request of this call was received: get_time
\* returns true and the time of the server
C40_Result ==
  [][ ( /\ last.op = "response" /\ ntp.got /\ ntp.ntp_header = "server"
        /\ ntp.pc["app"] = "wait" /\ ~C39_Busy
        /\ ntp'.pc["app"] = "idle" )
      => (ntp'.ret = "true" /\ ntp'.time = "server") ]_vars

====
